---- MODULE Spec2Model ----
(***************************************************************************)
(* A model of the hydra interpreter: the tokenizer and parser of           *)
(* src/src/lexer.cpp, the scope store of src/src/state.cpp, the            *)
(* tree-walking interpreter of src/src/interpreter.cpp and the REPL of     *)
(* main (src/unnamed/part_009).                                            *)
(*                                                                         *)
(* Text is a sequence of one-character strings; indices into text are      *)
(* 0-based as in the source (At).  Numbers (double) are fixed-point        *)
(* integers with FracDigits decimal digits.  The interpretation of         *)
(* function calls and initializations (Pol, Euc, the canvas) is not        *)
(* modelled; their parsing is.                                             *)
(***************************************************************************)
EXTENDS Integers, Sequences, FiniteSets, TLC

(***************************************************************************)
(* Bounds of the model.                                                    *)
(***************************************************************************)
\* decimal digits kept by the fixed-point representation of a double
FracDigits == 2
\* the REPL reads a line only while at most MaxScopes scopes are open
MaxScopes == 1
\* longest block of lines the REPL collects before it interprets
MaxCode == 4
\* depth of the scope stack explored by the scope-store specification
MaxDepth == 3
\* longest file given to interpret_code_from_file, in lines
MaxFile == 3
\* passes of a loop of which the history of its frame keeps a record
MaxPasses == 4

(***************************************************************************)
(* Text helpers (std::string).                                             *)
(***************************************************************************)
npos == -1

At(s, i) == s[i + 1]

Min(S) == CHOOSE x \in S : \A y \in S : x <= y

Max(S) == CHOOSE x \in S : \A y \in S : x >= y

find_first_not_of(s, chars, pos) ==
  LET hits == {i \in 0..(Len(s) - 1) : i >= pos /\ At(s, i) \notin chars}
  IN IF pos < 0 \/ hits = {} THEN npos ELSE Min(hits)

find_first_of(s, chars, pos) ==
  LET hits == {i \in 0..(Len(s) - 1) : i >= pos /\ At(s, i) \in chars}
  IN IF pos < 0 \/ hits = {} THEN npos ELSE Min(hits)

find_last_not_of(s, chars) ==
  LET hits == {i \in 0..(Len(s) - 1) : At(s, i) \notin chars}
  IN IF hits = {} THEN npos ELSE Max(hits)

\* position of the first occurrence of the two characters "//"
find_comment(s) ==
  LET hits == {i \in 0..(Len(s) - 2) : At(s, i) = "/" /\ At(s, i + 1) = "/"}
  IN IF hits = {} THEN npos ELSE Min(hits)

\* str.substr(pos, n); n = npos takes the rest
substr(s, pos, n) ==
  IF n = npos \/ pos + n > Len(s) THEN SubSeq(s, pos + 1, Len(s))
  ELSE SubSeq(s, pos + 1, pos + n)

DigitChars == <<"0", "1", "2", "3", "4", "5", "6", "7", "8", "9">>

\* the decimal digits of n >= 0, at least width of them
RECURSIVE DigitsText(_, _)
DigitsText(n, width) ==
  IF n < 10 /\ width <= 1 THEN <<DigitChars[n + 1]>>
  ELSE Append(DigitsText(n \div 10, width - 1), DigitChars[(n % 10) + 1])

\* std::to_string(int)
to_string_int(n) == IF n < 0 THEN <<"-">> \o DigitsText(0 - n, 1) ELSE DigitsText(n, 1)

WhiteSpace == {" ", "\t"}

Separators == {" ", "(", "+", "-", "*", "/", ")", ",", ":", "=", "[", "]"}

Digits == {"0", "1", "2", "3", "4", "5", "6", "7", "8", "9"}

DigitValue(c) ==
  CASE c = "0" -> 0 [] c = "1" -> 1 [] c = "2" -> 2 [] c = "3" -> 3
    [] c = "4" -> 4 [] c = "5" -> 5 [] c = "6" -> 6 [] c = "7" -> 7
    [] c = "8" -> 8 [] c = "9" -> 9

RECURSIVE Pow10(_)
Pow10(n) == IF n <= 0 THEN 1 ELSE 10 * Pow10(n - 1)

\* one unit (1.0) in the fixed-point representation
Scale == Pow10(FracDigits)

\* the doubles inf and nan: integers beyond every finite value of the model
Infinity == 1000000 * Scale

NaN == Infinity + 1

(***************************************************************************)
(* System: the keyword table and the error string.                         *)
(***************************************************************************)
error_string == <<"_", "_", "E", "R", "R", "O", "R", "_", "_">>

M_PI_string == <<"M", "_", "P", "I">>

types_for_keywords ==
  { <<<<"a", "r", "c">>, "Function">>,
    <<<<"c", "i", "r", "c", "l", "e">>, "Function">>,
    <<<<"c", "l", "e", "a", "r">>, "Function">>,
    <<<<"c", "o", "s">>, "Function">>,
    <<<<"c", "o", "s", "h">>, "Function">>,
    <<<<"c", "u", "r", "v", "e", "_", "a", "n", "g", "l", "e">>, "Function">>,
    <<<<"c", "u", "r", "v", "e", "_", "d", "i", "s", "t", "a", "n", "c", "e">>, "Function">>,
    <<<<"E", "u", "c">>, "Initialization">>,
    <<<<"e", "x", "p">>, "Function">>,
    <<<<"f", "o", "r">>, "Loop">>,
    <<<<"i", "n">>, "Range">>,
    <<<<"l", "i", "n", "e">>, "Function">>,
    <<<<"m", "a", "r", "k">>, "Function">>,
    <<<<"P", "o", "l">>, "Initialization">>,
    <<<<"p", "r", "i", "n", "t">>, "Function">>,
    <<<<"r", "a", "n", "d", "o", "m">>, "Function">>,
    <<<<"s", "a", "v", "e">>, "Function">>,
    <<<<"s", "i", "n">>, "Function">>,
    <<<<"s", "i", "n", "h">>, "Function">>,
    <<<<"s", "h", "o", "w">>, "Function">>,
    <<<<"t", "h", "e", "t", "a">>, "Function">>,
    <<<<"v", "a", "r">>, "Assignment">>,
    <<<<"+">>, "Operator">>,
    <<<<"-">>, "Operator">>,
    <<<<"*">>, "Operator">>,
    <<<<"/">>, "Operator">>,
    <<<<"=">>, "Assignment">>,
    <<<<"{">>, "Parenthesis">>,
    <<<<"}">>, "Parenthesis">> }

(***************************************************************************)
(* std::stod: the longest numeric prefix of the text is converted; the     *)
(* call throws invalid_argument (ok = FALSE) when there is none.  The      *)
(* texts converted hold no white space, so the forms are: an optional      *)
(* sign, then digits with an optional fraction and an optional unsigned    *)
(* exponent, or the words inf and nan in any letter case.                  *)
(***************************************************************************)
LowerCase(c) ==
  CASE c = "I" -> "i" [] c = "N" -> "n" [] c = "F" -> "f" [] c = "A" -> "a"
    [] OTHER -> c

\* number of leading characters of s from position pos on that are digits
RECURSIVE DigitRun(_, _)
DigitRun(s, pos) ==
  IF pos < Len(s) /\ At(s, pos) \in Digits THEN 1 + DigitRun(s, pos + 1) ELSE 0

\* value of the digits s[pos .. pos+n-1] read as a decimal integer
RECURSIVE DigitsValue(_, _, _)
DigitsValue(s, pos, n) ==
  IF n = 0 THEN 0
  ELSE 10 * DigitsValue(s, pos, n - 1) + DigitValue(At(s, pos + n - 1))

\* the fraction digits s[pos .. pos+n-1] as a fixed-point fraction
FractionValue(s, pos, n) ==
  IF n = 0 THEN 0
  ELSE IF n <= FracDigits THEN DigitsValue(s, pos, n) * Pow10(FracDigits - n)
  ELSE DigitsValue(s, pos, FracDigits)

\* std::stod of a text without a sign
stod_unsigned(s) ==
  LET word == [i \in 1..(IF Len(s) < 3 THEN Len(s) ELSE 3) |-> LowerCase(s[i])]
      intLen == DigitRun(s, 0)
      hasDot == intLen < Len(s) /\ At(s, intLen) = "."
      fracLen == IF hasDot THEN DigitRun(s, intLen + 1) ELSE 0
      mantEnd == IF hasDot THEN intLen + 1 + fracLen ELSE intLen
      hasExp == /\ mantEnd < Len(s)
                /\ At(s, mantEnd) \in {"e", "E"}
                /\ DigitRun(s, mantEnd + 1) > 0
      expo == IF hasExp
              THEN DigitsValue(s, mantEnd + 1, DigitRun(s, mantEnd + 1))
              ELSE 0
      mantissa == DigitsValue(s, 0, intLen) * Scale
                  + FractionValue(s, intLen + 1, fracLen)
  IN IF word = <<"i", "n", "f">> THEN [ok |-> TRUE, value |-> Infinity]
     ELSE IF word = <<"n", "a", "n">> THEN [ok |-> TRUE, value |-> NaN]
     ELSE IF intLen + fracLen = 0 THEN [ok |-> FALSE, value |-> 0]
     ELSE [ok |-> TRUE, value |-> mantissa * Pow10(expo)]

\* the value of -x for the x that stod_unsigned has found
stod_negated(found) ==
  IF ~found.ok \/ found.value = NaN THEN found
  ELSE [ok |-> TRUE, value |-> 0 - found.value]

stod(s) ==
  IF s # <<>> /\ s[1] = "-" THEN stod_negated(stod_unsigned(Tail(s)))
  ELSE IF s # <<>> /\ s[1] = "+" THEN stod_unsigned(Tail(s))
  ELSE stod_unsigned(s)

\* known_functions: the name of a function and the names of its arguments
known_functions ==
  { <<<<"a", "r", "c">>,
       <<<<"c", "e", "n", "t", "e", "r">>, <<"r", "a", "d", "i", "u", "s">>, <<"f", "r", "o", "m">>, <<"t", "o">>>>>>,
    <<<<"c", "i", "r", "c", "l", "e">>,
       <<<<"c", "e", "n", "t", "e", "r">>, <<"r", "a", "d", "i", "u", "s">>>>>>,
    <<<<"c", "l", "e", "a", "r">>,
       <<>>>>,
    <<<<"c", "o", "s">>,
       <<<<"x">>>>>>,
    <<<<"c", "o", "s", "h">>,
       <<<<"x">>>>>>,
    <<<<"c", "u", "r", "v", "e", "_", "a", "n", "g", "l", "e">>,
       <<<<"f", "r", "o", "m">>, <<"t", "o">>, <<"a", "n", "g", "l", "e">>>>>>,
    <<<<"c", "u", "r", "v", "e", "_", "d", "i", "s", "t", "a", "n", "c", "e">>,
       <<<<"f", "r", "o", "m">>, <<"t", "o">>, <<"d", "i", "s", "t", "a", "n", "c", "e">>>>>>,
    <<<<"E", "u", "c">>,
       <<<<"x">>, <<"y">>>>>>,
    <<<<"e", "x", "p">>,
       <<<<"x">>>>>>,
    <<<<"l", "i", "n", "e">>,
       <<<<"f", "r", "o", "m">>, <<"t", "o">>>>>>,
    <<<<"m", "a", "r", "k">>,
       <<<<"c", "e", "n", "t", "e", "r">>, <<"r", "a", "d", "i", "u", "s">>>>>>,
    <<<<"P", "o", "l">>,
       <<<<"r">>, <<"p", "h", "i">>>>>>,
    <<<<"p", "r", "i", "n", "t">>,
       <<<<"m", "e", "s", "s", "a", "g", "e">>>>>>,
    <<<<"r", "a", "n", "d", "o", "m">>,
       <<<<"f", "r", "o", "m">>, <<"t", "o">>>>>>,
    <<<<"s", "a", "v", "e">>,
       <<<<"f", "i", "l", "e">>>>>>,
    <<<<"s", "i", "n">>,
       <<<<"x">>>>>>,
    <<<<"s", "i", "n", "h">>,
       <<<<"x">>>>>>,
    <<<<"s", "h", "o", "w">>,
       <<>>>>,
    <<<<"t", "h", "e", "t", "a">>,
       <<<<"r", "1">>, <<"r", "2">>, <<"R">>>>>> }

is_known_function(name) == \E function \in known_functions : function[1] = name

arguments_of_function(name) ==
  (CHOOSE function \in known_functions : function[1] = name)[2]

(***************************************************************************)
(* Lexer: tokens.                                                          *)
(***************************************************************************)
Token(value, type) == [value |-> value, type |-> type, children |-> <<>>]

type_of_string(str) ==
  IF str = error_string THEN "Error"
  ELSE IF \E kw \in types_for_keywords : kw[1] = str
  THEN (CHOOSE kw \in types_for_keywords : kw[1] = str)[2]
  ELSE IF str = M_PI_string THEN "Number"
  ELSE IF stod(str).ok THEN "Number"
  ELSE "Unknown"

clean_string(str) ==
  LET first == find_first_not_of(str, WhiteSpace, 0)
      s1 == IF first = npos THEN <<>> ELSE substr(str, first, npos)
      last == find_last_not_of(s1, WhiteSpace)
      s2 == IF last # npos THEN substr(s1, 0, last + 1) ELSE s1
      comment == find_comment(s2)
  IN IF comment # npos THEN substr(s2, 0, comment) ELSE s2

is_string_empty(str) ==
  str = <<>> \/ find_first_not_of(str, WhiteSpace, 0) = npos

closing_bracket_of(c) ==
  CASE c = "(" -> ")" [] c = "[" -> "]" [] c = "{" -> "}"

\* scan from string_index on with number_of_open_brackets brackets open
RECURSIVE matching_bracket_scan(_, _, _, _)
matching_bracket_scan(str, opening_bracket, string_index, open) ==
  IF string_index >= Len(str) THEN npos
  ELSE IF At(str, string_index) = opening_bracket
  THEN matching_bracket_scan(str, opening_bracket, string_index + 1, open + 1)
  ELSE IF At(str, string_index) = closing_bracket_of(opening_bracket)
  THEN IF open - 1 = 0 THEN string_index
       ELSE matching_bracket_scan(str, opening_bracket, string_index + 1, open - 1)
  ELSE matching_bracket_scan(str, opening_bracket, string_index + 1, open)

position_of_matching_bracket_for_position(str, opening_bracket, position) ==
  matching_bracket_scan(str, opening_bracket, position + 1, 1)

(***************************************************************************)
(* Two reads of tokenize_string are out of bounds: the character at        *)
(* cleaned_string[npos] when only white space is left, and tokens.back()   *)
(* of an empty vector when a bracket is the first token.  ub.ch is the     *)
(* character the first read yields; ub.back tells whether the second read  *)
(* faults ("crash") or yields a type that is no Function ("other").        *)
(* parse_argument_list reads tokens[tokens.size()]; a fault ends the       *)
(* program wherever it happens, so ub.back decides that read as well.      *)
(*                                                                         *)
(* A quote without a closing quote sets current_index back to 0            *)
(* (matching_quote + 1 with matching_quote = npos): the do-while loop      *)
(* scans the line again.  ub.rescanned tells that the call has done so     *)
(* once; the scan is a function of the index alone, so a second time       *)
(* means that the loop never ends.  In a TokenizeResult crash tells that   *)
(* the call does not return: a fault or the endless loop.                  *)
(***************************************************************************)
UBOutcomes == [ch : {"(", "[", "x"}, back : {"crash", "other"}, rescanned : {FALSE}]

\* message: the text of the error message of the failure that ends the call (the
\* messages of the nested calls, whose failure is ignored, are not kept)
TokenizeResult(ok, tokens, crash) ==
  [ok |-> ok, tokens |-> tokens, crash |-> crash, message |-> <<>>]

\* the call prints message and returns false
TokenizeFailure(tokens, message) ==
  [ok |-> FALSE, tokens |-> tokens, crash |-> FALSE, message |-> message]

RECURSIVE tokenize_string(_, _, _)
RECURSIVE tokenize_iteration(_, _, _, _)
RECURSIVE tokenize_next_token(_, _, _, _)
RECURSIVE tokenize_escapes(_, _, _, _, _)

position_of_matching_quote_for_position(str, position) ==
  find_first_of(str, {"\""}, position + 1)

\* the children of a string token: [ok, children, crash]
Escapes(ok, children, crash) ==
  [ok |-> ok, children |-> children, crash |-> crash, position |-> npos]

\* the escape that opens at position has no closing bracket
EscapeNotClosed(children, position) ==
  [ok |-> FALSE, children |-> children, crash |-> FALSE, position |-> position]

\* children with the text part appended if it is not empty
with_string_part(children, string_part) ==
  IF string_part # <<>> THEN Append(children, Token(string_part, "String")) ELSE children

\* the escape that opens at position_of_escape and closes at
\* position_of_matching_bracket, its content tokenized
tokenize_escape(string_content, position_of_escape, position_of_matching_bracket, children, ub, escaped) ==
  IF escaped.crash THEN Escapes(FALSE, children, TRUE)
  ELSE IF position_of_matching_bracket >= Len(string_content) - 1
  THEN Escapes(TRUE,
         Append(children,
                [value |-> substr(string_content, position_of_escape + 1,
                                  position_of_matching_bracket - (position_of_escape + 1)),
                 type |-> "StringEscape", children |-> escaped.tokens]),
         FALSE)
  ELSE IF find_first_of(string_content, {"\\"}, position_of_matching_bracket + 1) = npos
  THEN Escapes(TRUE,
         with_string_part(
           Append(children,
                  [value |-> substr(string_content, position_of_escape + 1,
                                    position_of_matching_bracket - (position_of_escape + 1)),
                   type |-> "StringEscape", children |-> escaped.tokens]),
           substr(string_content, position_of_matching_bracket + 1, npos)),
         FALSE)
  ELSE tokenize_escapes(string_content,
         find_first_of(string_content, {"\\"}, position_of_matching_bracket + 1),
         position_of_matching_bracket,
         Append(children,
                [value |-> substr(string_content, position_of_escape + 1,
                                  position_of_matching_bracket - (position_of_escape + 1)),
                 type |-> "StringEscape", children |-> escaped.tokens]),
         ub)

\* the while loop over the escapes of a string, at position_of_escape (on `\`)
tokenize_escapes(string_content, position_of_escape, position_of_last_escape_end, children, ub) ==
  IF position_of_escape = npos THEN Escapes(TRUE, children, FALSE)
  ELSE IF position_of_escape >= Len(string_content) - 1 THEN Escapes(TRUE, children, FALSE)
  ELSE IF At(string_content, position_of_escape + 1) # "("
  THEN tokenize_escapes(string_content,
         find_first_of(string_content, {"\\"}, position_of_escape + 1),
         position_of_last_escape_end, children, ub)
  ELSE IF position_of_matching_bracket_for_position(string_content, "(",
                                                    position_of_escape + 1) = npos
  THEN EscapeNotClosed(children, position_of_escape + 1)
  ELSE tokenize_escape(string_content, position_of_escape + 1,
         position_of_matching_bracket_for_position(string_content, "(",
                                                   position_of_escape + 1),
         with_string_part(children,
           substr(string_content, position_of_last_escape_end + 1,
                  position_of_escape - (position_of_last_escape_end + 1))),
         ub,
         tokenize_string(
           substr(string_content, position_of_escape + 2,
                  position_of_matching_bracket_for_position(string_content, "(",
                                                            position_of_escape + 1)
                    - (position_of_escape + 2)),
           <<>>, [ub EXCEPT !.rescanned = FALSE]))

\* the string token is pushed and the loop goes on behind the closing quote
tokenize_quoted(cleaned_string, matching_quote, string_content, tokens, ub, escapes) ==
  IF escapes.crash THEN TokenizeResult(FALSE, tokens, TRUE)
  ELSE IF ~escapes.ok
  THEN TokenizeFailure(tokens,
         <<"Invalid syntax. Could not find matching bracket for '\\(' at character index ">>
           \o to_string_int(escapes.position) \o <<".">>)
  ELSE IF matching_quote = npos /\ ub.rescanned THEN TokenizeResult(FALSE, tokens, TRUE)
  ELSE tokenize_next_token(cleaned_string, matching_quote + 1,
         Append(tokens, [value |-> string_content, type |-> "String",
                         children |-> escapes.children]),
         [ub EXCEPT !.rescanned = @ \/ matching_quote = npos])

\* the quote at current_index, its content found
tokenize_quote(cleaned_string, matching_quote, string_content, tokens, ub) ==
  tokenize_quoted(cleaned_string, matching_quote, string_content, tokens, ub,
    tokenize_escapes(string_content, find_first_of(string_content, {"\\"}, 0), -1,
                     <<>>, ub))

\* the part of one pass of the do-while loop after the bracket branch
tokenize_next_token(cleaned_string, current_index, tokens, ub) ==
  IF current_index = npos THEN TokenizeResult(TRUE, tokens, FALSE)
  ELSE
    LET found == find_first_of(cleaned_string, Separators, current_index)
        current_token ==
          IF found = npos THEN substr(cleaned_string, current_index, npos)
          ELSE IF found = current_index THEN substr(cleaned_string, current_index, 1)
          ELSE substr(cleaned_string, current_index, found - current_index)
        position_of_next_separator ==
          IF found # npos /\ found = current_index THEN found + 1 ELSE found
        tokens1 ==
          IF ~is_string_empty(current_token)
          THEN Append(tokens, Token(current_token, type_of_string(current_token)))
          ELSE tokens
    IN IF position_of_next_separator # npos
          /\ position_of_next_separator <= Len(cleaned_string)
       THEN tokenize_iteration(cleaned_string, position_of_next_separator, tokens1, ub)
       ELSE TokenizeResult(TRUE, tokens1, FALSE)

\* one pass of the do-while loop, entered with current_index
tokenize_iteration(cleaned_string, index, tokens, ub) ==
  LET current_index == find_first_not_of(cleaned_string, WhiteSpace, index)
      ch == IF current_index = npos THEN ub.ch ELSE At(cleaned_string, current_index)
  IN IF ch \in {"(", "["}
     THEN
       LET matching_bracket ==
             position_of_matching_bracket_for_position(cleaned_string, ch, current_index)
       IN IF matching_bracket = npos
          THEN TokenizeFailure(Append(tokens, Token(error_string, "Error")),
                 <<"Missing parentheses: Could not find matching parentheses for '", ch,
                   "' at character index: ">> \o to_string_int(current_index) \o <<".">>)
          ELSE IF tokens = <<>> /\ ub.back = "crash"
          THEN TokenizeResult(FALSE, tokens, TRUE)
          ELSE
            LET back_is_call == /\ tokens # <<>>
                                /\ tokens[Len(tokens)].type \in {"Function", "Initialization"}
                tokens1 == IF back_is_call THEN tokens
                           ELSE IF ch = "(" THEN Append(tokens, Token(<<"(">>, "Expression"))
                           ELSE Append(tokens, Token(<<"[">>, "Range"))
                inner == tokenize_string(
                           substr(cleaned_string, current_index + 1,
                                  matching_bracket - (current_index + 1)),
                           tokens1[Len(tokens1)].children,
                           [ub EXCEPT !.rescanned = FALSE])
                tokens2 == [tokens1 EXCEPT ![Len(tokens1)].children = inner.tokens]
            IN IF inner.crash THEN TokenizeResult(FALSE, tokens2, TRUE)
               ELSE tokenize_next_token(cleaned_string, matching_bracket + 1, tokens2, ub)
     ELSE IF ch = "\""
     THEN tokenize_quote(cleaned_string,
            position_of_matching_quote_for_position(cleaned_string, current_index),
            IF position_of_matching_quote_for_position(cleaned_string, current_index) = npos
            THEN substr(cleaned_string, current_index + 1, npos)
            ELSE substr(cleaned_string, current_index + 1,
                        position_of_matching_quote_for_position(cleaned_string, current_index)
                          - (current_index + 1)),
            tokens, ub)
     ELSE tokenize_next_token(cleaned_string, current_index, tokens, ub)

\* tokens: the vector the call appends to
tokenize_string(str, tokens, ub) ==
  tokenize_iteration(clean_string(str), 0, tokens, ub)

(***************************************************************************)
(* Lexer: the parser.  A parser returns [ok, result]; result is the        *)
(* ParseResult the call leaves behind, also when it fails.                 *)
(***************************************************************************)
ParseResult(type, value, children) ==
  [type |-> type, value |-> value, children |-> children]

\* crash: the call does not return (the fault of a read that is out of bounds)
Parsed(ok, result) == [ok |-> ok, result |-> result, crash |-> FALSE]

\* the failure of a parser after the parser it has called returned found
ParseFailed(found, result) == [ok |-> FALSE, result |-> result, crash |-> found.crash]

type_of_tokenized_string(tokenized_string) ==
  IF tokenized_string = <<>> THEN "Empty"
  ELSE IF \E i \in 1..Len(tokenized_string) : tokenized_string[i].value = <<"=">>
  THEN "Assignment"
  ELSE IF \E i \in 1..Len(tokenized_string) : tokenized_string[i].type = "Operator"
  THEN "Expression"
  ELSE tokenized_string[1].type

parse_number(tokens) ==
  IF Len(tokens) # 1 THEN Parsed(FALSE, ParseResult("Error", <<>>, <<>>))
  ELSE IF tokens[1].type # "Number" THEN Parsed(FALSE, ParseResult("Error", <<>>, <<>>))
  ELSE Parsed(TRUE, ParseResult("Number", tokens[1].value, <<>>))

parse_parenthesis(tokens) ==
  IF Len(tokens) # 1 THEN Parsed(FALSE, ParseResult("Error", <<>>, <<>>))
  ELSE IF tokens[1].value # <<"}">> THEN Parsed(FALSE, ParseResult("Error", <<>>, <<>>))
  ELSE Parsed(TRUE, ParseResult("Parenthesis", tokens[1].value, <<>>))

RECURSIVE parse_tokens(_, _)
RECURSIVE parse_assignment(_, _)
RECURSIVE parse_expression(_, _)
RECURSIVE parse_expression_terms(_, _, _, _)
RECURSIVE parse_range(_, _)
RECURSIVE parse_range_arguments(_, _, _, _, _)
RECURSIVE parse_loop(_, _)
RECURSIVE parse_string_token(_, _)
RECURSIVE parse_argument_list_arguments(_, _, _, _, _)

\* the inner while loop of parse_argument_list: where the value of an argument
\* ends, or the ":" found in it
RECURSIVE argument_value_end(_, _)
argument_value_end(tokens, token_index) ==
  IF token_index >= Len(tokens) THEN [token_index |-> token_index, colon |-> FALSE]
  ELSE IF At(tokens, token_index).value = <<",">>
  THEN [token_index |-> token_index, colon |-> FALSE]
  ELSE IF At(tokens, token_index).value = <<":">>
  THEN [token_index |-> token_index, colon |-> TRUE]
  ELSE argument_value_end(tokens, token_index + 1)

\* the argument named at token_index, its value parsed
parse_argument(tokens, expected_arguments, token_index, children, ub, value_end, argument_evaluation) ==
  IF ~argument_evaluation.ok
  THEN ParseFailed(argument_evaluation, ParseResult("Error", <<>>, children))
  ELSE parse_argument_list_arguments(tokens, expected_arguments,
         value_end.token_index + 1,
         Append(children,
                ParseResult("Argument", At(tokens, token_index).value,
                            <<argument_evaluation.result>>)),
         ub)

\* the argument named at token_index, the end of its value found.  The inner
\* loop tests tokens[token_index].value before token_index < tokens.size():
\* a value that runs to the end of the tokens ends with a read one past the
\* end of the vector, which faults (ub.back = "crash") or not.
parse_argument_value(tokens, expected_arguments, token_index, children, ub, value_end) ==
  IF value_end.colon THEN Parsed(FALSE, ParseResult("Error", <<>>, children))
  ELSE IF value_end.token_index >= Len(tokens) /\ ub.back = "crash"
  THEN [ok |-> FALSE, result |-> ParseResult("ArgumentList", <<>>, children),
        crash |-> TRUE]
  ELSE parse_argument(tokens, expected_arguments, token_index, children, ub, value_end,
         parse_tokens(SubSeq(tokens, token_index + 3, value_end.token_index), ub))

\* a parse_argument_list that takes the expected arguments in any order
parse_argument_list_arguments_in_any_order(tokens, expected_arguments, token_index, children, ub) ==
  IF token_index >= Len(tokens)
  THEN Parsed(TRUE, ParseResult("ArgumentList", <<>>, children))
  ELSE IF Len(children) >= Len(expected_arguments)
  THEN Parsed(FALSE, ParseResult("Error", <<>>, children))
  ELSE IF \A i \in 1..Len(expected_arguments) :
            At(tokens, token_index).value # expected_arguments[i]
  THEN Parsed(FALSE, ParseResult("Error", <<>>, children))
  ELSE IF token_index + 1 >= Len(tokens)
  THEN Parsed(FALSE, ParseResult("Error", <<>>, children))
  ELSE IF At(tokens, token_index + 1).value # <<":">>
  THEN Parsed(FALSE, ParseResult("Error", <<>>, children))
  ELSE IF token_index + 2 >= Len(tokens)
  THEN Parsed(FALSE, ParseResult("Error", <<>>, children))
  ELSE parse_argument_value(tokens, expected_arguments, token_index, children, ub,
         argument_value_end(tokens, token_index + 2))

\* the outer while loop of parse_argument_list, at token_index;
\* number_of_found_arguments is the number of children
parse_argument_list_arguments(tokens, expected_arguments, token_index, children, ub) ==
  IF token_index >= Len(tokens)
  THEN Parsed(TRUE, ParseResult("ArgumentList", <<>>, children))
  ELSE IF Len(children) >= Len(expected_arguments)
  THEN Parsed(FALSE, ParseResult("Error", <<>>, children))
  ELSE IF At(tokens, token_index).value # expected_arguments[Len(children) + 1]
  THEN Parsed(FALSE, ParseResult("Error", <<>>, children))
  ELSE IF token_index + 1 >= Len(tokens)
  THEN Parsed(FALSE, ParseResult("Error", <<>>, children))
  ELSE IF At(tokens, token_index + 1).value # <<":">>
  THEN Parsed(FALSE, ParseResult("Error", <<>>, children))
  ELSE IF token_index + 2 >= Len(tokens)
  THEN Parsed(FALSE, ParseResult("Error", <<>>, children))
  ELSE parse_argument_value(tokens, expected_arguments, token_index, children, ub,
         argument_value_end(tokens, token_index + 2))

parse_argument_list(tokens, expected_arguments, ub) ==
  IF tokens = <<>> THEN Parsed(FALSE, ParseResult("Error", <<>>, <<>>))
  ELSE parse_argument_list_arguments(tokens, expected_arguments, 0, <<>>, ub)

\* parse_function after its call of parse_argument_list
parse_function_arguments(tokens, argument_parse_result) ==
  [ok |-> argument_parse_result.ok,
   result |-> ParseResult(IF argument_parse_result.ok THEN "Function" ELSE "Error",
                          tokens[1].value, <<argument_parse_result.result>>),
   crash |-> argument_parse_result.crash]

parse_function(tokens, ub) ==
  IF Len(tokens) # 1 THEN Parsed(FALSE, ParseResult("Error", <<>>, <<>>))
  ELSE IF tokens[1].type # "Function" THEN Parsed(FALSE, ParseResult("Error", <<>>, <<>>))
  ELSE IF ~is_known_function(tokens[1].value)
  THEN Parsed(FALSE, ParseResult("Error", tokens[1].value, <<>>))
  ELSE parse_function_arguments(tokens,
         parse_argument_list(tokens[1].children, arguments_of_function(tokens[1].value),
                             ub))

\* parse_initialization after its call of parse_argument_list
parse_initialization_arguments(tokens, argument_parse_result) ==
  [ok |-> argument_parse_result.ok,
   result |-> ParseResult("Initialization", tokens[1].value,
                          <<argument_parse_result.result>>),
   crash |-> argument_parse_result.crash]

parse_initialization(tokens, ub) ==
  IF tokens[1].type # "Initialization"
  THEN Parsed(FALSE, ParseResult("Error", <<>>, <<>>))
  ELSE IF ~is_known_function(tokens[1].value)
  THEN Parsed(FALSE, ParseResult("Initialization", tokens[1].value, <<>>))
  ELSE IF tokens[1].children = <<>>
  THEN Parsed(FALSE, ParseResult("Error", tokens[1].value, <<>>))
  ELSE parse_initialization_arguments(tokens,
         parse_argument_list(tokens[1].children, arguments_of_function(tokens[1].value),
                             ub))
RECURSIVE parse_string_children(_, _, _, _)

\* the loop of parse_string_token over the children of the string token, at index
parse_string_children(token, index, children, ub) ==
  IF index >= Len(token.children)
  THEN Parsed(TRUE, ParseResult("String", token.value, children))
  ELSE IF At(token.children, index).type = "String"
  THEN LET string_token_parse_result == parse_string_token(<<At(token.children, index)>>, ub)
       IN IF ~string_token_parse_result.ok
          THEN ParseFailed(string_token_parse_result,
                           ParseResult("Error", token.value, children))
          ELSE parse_string_children(token, index + 1,
                 Append(children, string_token_parse_result.result), ub)
  ELSE IF At(token.children, index).type = "StringEscape"
  THEN IF At(token.children, index).children = <<>>
       THEN Parsed(FALSE, ParseResult("Error", token.value, children))
       ELSE LET string_escape_parse_result == parse_tokens(At(token.children, index).children, ub)
            IN IF ~string_escape_parse_result.ok
               THEN ParseFailed(string_escape_parse_result,
                                ParseResult("Error", token.value, children))
               ELSE parse_string_children(token, index + 1,
                      Append(children, string_escape_parse_result.result), ub)
  ELSE parse_string_children(token, index + 1, children, ub)

parse_string_token(tokens, ub) ==
  IF Len(tokens) # 1 THEN Parsed(FALSE, ParseResult("Error", <<>>, <<>>))
  ELSE IF tokens[1].type # "String" THEN Parsed(FALSE, ParseResult("Error", <<>>, <<>>))
  ELSE IF tokens[1].children = <<>>
  THEN Parsed(TRUE, ParseResult("String", tokens[1].value, <<>>))
  ELSE parse_string_children(tokens[1], 0, <<>>, ub)

\* the loop of parse_range over the children of the range token, at index
parse_range_arguments(range_children, index, tokens_in_current_range_argument, children, ub) ==
  IF index > Len(range_children) THEN Parsed(TRUE, ParseResult("Range", <<"[">>, children))
  ELSE IF index = Len(range_children) \/ At(range_children, index).value = <<",">>
  THEN LET current_argument == parse_tokens(tokens_in_current_range_argument, ub)
       IN IF ~current_argument.ok
          THEN ParseFailed(current_argument, ParseResult("Range", <<"[">>, children))
          ELSE parse_range_arguments(range_children, index + 1, <<>>,
                                     Append(children, current_argument.result), ub)
  ELSE parse_range_arguments(range_children, index + 1,
         Append(tokens_in_current_range_argument, At(range_children, index)), children, ub)

parse_range(tokens, ub) ==
  IF Len(tokens) # 1 THEN Parsed(FALSE, ParseResult("Error", <<>>, <<>>))
  ELSE IF tokens[1].type # "Range" THEN Parsed(FALSE, ParseResult("Error", <<>>, <<>>))
  ELSE IF Len(tokens[1].children) < 5 THEN Parsed(FALSE, ParseResult("Error", <<>>, <<>>))
  ELSE LET arguments == parse_range_arguments(tokens[1].children, 0, <<>>, <<>>, ub)
           result == ParseResult("Range", tokens[1].value, arguments.result.children)
       IN IF ~arguments.ok THEN ParseFailed(arguments, result)
          ELSE IF Len(result.children) # 3 THEN Parsed(FALSE, result)
          ELSE Parsed(TRUE, result)

parse_loop(tokens, ub) ==
  IF Len(tokens) # 5 THEN Parsed(FALSE, ParseResult("Error", <<>>, <<>>))
  ELSE IF tokens[1].value # <<"f", "o", "r">>
  THEN Parsed(FALSE, ParseResult("Error", <<>>, <<>>))
  ELSE IF tokens[2].type \notin {"Unknown", "Variable"}
  THEN Parsed(FALSE, ParseResult("Error", tokens[1].value, <<>>))
  ELSE
    LET variable_parse_result == ParseResult("Variable", tokens[2].value, <<>>)
    IN IF tokens[3].value # <<"i", "n">>
       THEN Parsed(FALSE, ParseResult("Error", tokens[1].value, <<variable_parse_result>>))
       ELSE IF tokens[4].type # "Range"
       THEN Parsed(FALSE, ParseResult("Error", tokens[1].value, <<variable_parse_result>>))
       ELSE
         LET range == parse_range(<<tokens[4]>>, ub)
         IN IF ~range.ok
            THEN ParseFailed(range, ParseResult("Error", tokens[1].value,
                                                <<variable_parse_result>>))
            ELSE IF tokens[5].value # <<"{">>
            THEN Parsed(FALSE, ParseResult("Error", tokens[1].value,
                                           <<variable_parse_result, range.result>>))
            ELSE Parsed(TRUE, ParseResult("Loop", tokens[1].value,
                                          <<variable_parse_result, range.result>>))

\* the loop of parse_expression over the tokens, at index
parse_expression_terms(tokens, index, children, ub) ==
  IF index >= Len(tokens) THEN Parsed(TRUE, ParseResult("Expression", <<>>, children))
  ELSE IF index % 2 = 0
  THEN IF At(tokens, index).type = "Operator"
       THEN Parsed(FALSE, ParseResult("Error", <<>>, children))
       ELSE LET term_result == parse_tokens(<<At(tokens, index)>>, ub)
            IN IF ~term_result.ok
               THEN ParseFailed(term_result,
                                ParseResult("Error", <<>>,
                                            Append(children, term_result.result)))
               ELSE parse_expression_terms(tokens, index + 1,
                                           Append(children, term_result.result), ub)
  ELSE IF At(tokens, index).type # "Operator"
       THEN Parsed(FALSE, ParseResult("Error", <<>>, children))
       ELSE parse_expression_terms(tokens, index + 1,
              Append(children, ParseResult("Operator", At(tokens, index).value, <<>>)), ub)

parse_expression(tokens, ub) ==
  IF tokens = <<>> THEN Parsed(FALSE, ParseResult("Error", <<>>, <<>>))
  ELSE IF Len(tokens) = 1
  THEN IF tokens[1].type = "Number"
       THEN Parsed(TRUE, ParseResult("Number", tokens[1].value, <<>>))
       ELSE IF tokens[1].type = "Expression" /\ tokens[1].children # <<>>
       THEN parse_expression(tokens[1].children, ub)
       ELSE Parsed(FALSE, ParseResult("Error", <<>>, <<>>))
  ELSE IF Len(tokens) % 2 = 1 THEN parse_expression_terms(tokens, 0, <<>>, ub)
  ELSE Parsed(FALSE, ParseResult("Error", <<>>, <<>>))

parse_assignment(tokens, ub) ==
  LET equality_signs == {i \in 0..(Len(tokens) - 1) : At(tokens, i).value = <<"=">>}
      index_of_equality_sign == IF equality_signs = {} THEN -1 ELSE Min(equality_signs)
      lhs == SubSeq(tokens, 1, index_of_equality_sign)
      rhs == SubSeq(tokens, index_of_equality_sign + 2, Len(tokens))
      lhs_children ==
        IF index_of_equality_sign = 1
        THEN <<ParseResult("Variable", lhs[1].value, <<>>)>>
        ELSE <<ParseResult("Assignment", lhs[1].value, <<>>),
               ParseResult("Variable", lhs[2].value, <<>>)>>
  IN IF Cardinality(equality_signs) > 1
     THEN Parsed(FALSE, ParseResult("Error", <<>>, <<>>))
     ELSE IF index_of_equality_sign = 1 /\ lhs[1].type # "Unknown"
     THEN Parsed(FALSE, ParseResult("Error", <<>>, <<>>))
     ELSE IF index_of_equality_sign = 2 /\ lhs[1].value # <<"v", "a", "r">>
     THEN Parsed(FALSE, ParseResult("Error", <<>>, <<>>))
     ELSE IF index_of_equality_sign = 2 /\ lhs[2].type # "Unknown"
     THEN Parsed(FALSE, ParseResult("Error", <<>>, <<>>))
     ELSE IF index_of_equality_sign \notin {1, 2}
     THEN Parsed(FALSE, ParseResult("Error", <<>>, <<>>))
     ELSE LET rhs_result == parse_tokens(rhs, ub)
          IN [ok |-> rhs_result.ok,
              result |-> ParseResult(IF rhs_result.ok THEN "Assignment" ELSE "Error", <<>>,
                                     Append(lhs_children, rhs_result.result)),
              crash |-> rhs_result.crash]

\* known_parsers has no entry for the other types
parse_tokens(tokens, ub) ==
  LET type == type_of_tokenized_string(tokens)
  IN CASE type = "Empty" -> Parsed(TRUE, ParseResult("Empty", <<>>, <<>>))
       [] type = "Assignment" -> parse_assignment(tokens, ub)
       [] type = "Expression" -> parse_expression(tokens, ub)
       [] type = "Function" -> parse_function(tokens, ub)
       [] type = "Initialization" -> parse_initialization(tokens, ub)
       [] type = "Loop" -> parse_loop(tokens, ub)
       [] type = "Number" -> parse_number(tokens)
       [] type = "Parenthesis" -> parse_parenthesis(tokens)
       [] type = "Range" -> parse_range(tokens, ub)
       [] type = "String" -> parse_string_token(tokens, ub)
       [] OTHER ->
            IF Len(tokens) = 1
            THEN Parsed(TRUE, ParseResult("Unknown", tokens[1].value, <<>>))
            ELSE Parsed(FALSE, ParseResult("Error", <<>>, <<>>))

\* [ok, result, crash]: crash when the tokenizer or the parser did not return
parse_tokenized(parsed, crash) ==
  [ok |-> parsed.ok, result |-> parsed.result, crash |-> crash \/ parsed.crash]

parse_string_tokens(tokenized, ub) ==
  IF tokenized.ok THEN parse_tokenized(parse_tokens(tokenized.tokens, ub), FALSE)
  ELSE parse_tokenized(Parsed(FALSE, ParseResult("Unknown", <<>>, <<>>)), tokenized.crash)

parse_string(str, ub) == parse_string_tokens(tokenize_string(str, <<>>, ub), ub)

(***************************************************************************)
(* The lines a user types.                                                 *)
(***************************************************************************)
LineVarA == <<"v", "a", "r", " ", "a", " ", "=", " ", "1">>

LineSetA == <<"a", " ", "=", " ", "2">>

LineVarY == <<"v", "a", "r", " ", "y", " ", "=", " ", "1">>

LineSetI == <<"i", " ", "=", " ", "5">>

LineForI == <<"f", "o", "r", " ", "i", " ", "i", "n", " ", "[", "0", ",", " ", "1", ",", " ", "2", "]", " ", "{">>

LineForJ == <<"f", "o", "r", " ", "j", " ", "i", "n", " ", "[", "2", ",", " ", "1", ",", " ", "a", "]", " ", "{">>

LineForNegative == <<"f", "o", "r", " ", "i", " ", "i", "n", " ", "[", "0", ".", "0", ",", " ", "1", ".", "0", ",", " ", "-", "1", ".", "0", "]", " ", "{">>

\* a range whose step is 0
LineForZero == <<"f", "o", "r", " ", "i", " ", "i", "n", " ", "[", "0", ",", " ", "0", ",", " ", "2", "]", " ", "{">>

LineClose == <<"}">>

LineEmpty == <<>>

\* the lines a user types
Lines == {LineVarA, LineSetA, LineVarY, LineSetI, LineForI, LineForJ,
          LineForNegative, LineClose, LineEmpty}

\* declaration lines `var <id> = <e>`; a number is its text and its value
DeclIds == {<<"a">>, <<"b">>, <<"i", "n", "f", "o">>}

DeclNumbers == {[text |-> <<"1">>, value |-> Scale],
                [text |-> <<"2", ".", "5">>, value |-> (5 * Scale) \div 2],
                [text |-> <<"-", "1", ".", "0">>, value |-> 0 - Scale]}

DeclExpressions == {number.text : number \in DeclNumbers} \cup {<<"b">>}

DeclLine(id, expression) ==
  <<"v", "a", "r", " ">> \o id \o <<" ", "=", " ">> \o expression

DeclLines == {DeclLine(id, expression) : id \in DeclIds, expression \in DeclExpressions}

\* lines that refer to variables: `a = a`, `b` and `b = 1`
LineSelfA == <<"a", " ", "=", " ", "a">>

LineRefB == <<"b">>

LineSetB == <<"b", " ", "=", " ", "1">>

RefLines == {LineVarA, LineSetA, LineSelfA, LineRefB, LineSetB, LineForI, LineClose}

\* arithmetic lines `<term> <op> <term> <op> <term>`
ExprFirstTerms == {<<"2">>, <<"1", "0">>}

ExprSecondTerms == {<<"3">>, <<"2">>}

ExprThirdTerms == {<<"4">>, <<"5">>}

ExprOperators == {<<"+">>, <<"-">>, <<"*">>, <<"/">>}

ExprLine(first, first_operator, second, second_operator, third) ==
  first \o <<" ">> \o first_operator \o <<" ">> \o second \o <<" ">>
        \o second_operator \o <<" ">> \o third

ExprLines ==
  {ExprLine(first, first_operator, second, second_operator, third) :
     first \in ExprFirstTerms, first_operator \in ExprOperators,
     second \in ExprSecondTerms, second_operator \in ExprOperators,
     third \in ExprThirdTerms}

\* `(2 + 3) * 4` and `4 * (2 + 3)`
LineParenFirst == <<"(", "2", " ", "+", " ", "3", ")", " ", "*", " ", "4">>

LineParenLast == <<"4", " ", "*", " ", "(", "2", " ", "+", " ", "3", ")">>

ParenLines == {LineParenFirst, LineParenLast}

\* string literals: text runs before, between and after up to two escapes
StringRuns == {<<>>, <<"x">>, <<"\\", "y">>}

\* no escape, or the escape of a number
StringFirstEscapes == {<<>>, <<"\\", "(", "2", ")">>}

\* no escape, or the escape of a sum
StringSecondEscapes == {<<>>, <<"\\", "(", "1", " ", "+", " ", "2", ")">>}

StringLine(first_run, first_escape, second_run, second_escape, third_run) ==
  <<"\"">> \o first_run \o first_escape \o second_run \o second_escape \o third_run
    \o <<"\"">>

StringLines ==
  {StringLine(first_run, first_escape, second_run, second_escape, third_run) :
     first_run \in StringRuns, first_escape \in StringFirstEscapes,
     second_run \in StringRuns, second_escape \in StringSecondEscapes,
     third_run \in StringRuns}

AllLines ==
  Lines \cup DeclLines \cup RefLines \cup ExprLines \cup ParenLines \cup StringLines
        \cup {LineForZero}

\* parse_string, tabulated over the lines a user types
ParseTable ==
  {[code_line |-> code_line, ub |-> ub, parsed |-> parse_string(code_line, ub)] :
     code_line \in AllLines, ub \in UBOutcomes}

parse_line(code_line, ub) ==
  (CHOOSE entry \in ParseTable : entry.code_line = code_line /\ entry.ub = ub).parsed

(***************************************************************************)
(* Lexer::parse_code.  code_scopes is the stack of statement lists; the    *)
(* list on top is the children of the last statement of the list below it  *)
(* (the source holds pointers), which Stitch writes back.  An access to    *)
(* the top of an empty stack is out of bounds (crash).                     *)
(***************************************************************************)
\* a pop_back that loses what was written through the top
PopCodeScopeWithoutBody(code_scopes) ==
  IF Len(code_scopes) = 1 THEN <<>> ELSE SubSeq(code_scopes, 1, Len(code_scopes) - 1)

\* code_scopes.pop_back(): the list below keeps what was written through the top
PopCodeScope(code_scopes) ==
  LET n == Len(code_scopes)
      below == code_scopes[n - 1]
  IN IF n = 1 THEN <<>>
     ELSE Append(SubSeq(code_scopes, 1, n - 2),
                 [below EXCEPT ![Len(below)].children = code_scopes[n]])

RECURSIVE Stitch(_)
Stitch(code_scopes) ==
  IF Len(code_scopes) <= 1 THEN code_scopes ELSE Stitch(PopCodeScope(code_scopes))

ParsedCode(ok, code_scopes, line, crash) ==
  [ok |-> ok,
   parsed_code |-> IF code_scopes = <<>> THEN <<>> ELSE Stitch(code_scopes)[1],
   line |-> line, crash |-> crash, depth |-> Len(code_scopes)]

RECURSIVE parse_code_lines(_, _, _, _, _)
RECURSIVE parse_code_line(_, _, _, _, _, _)

\* one pass of the loop over the lines, the line being parsed
parse_code_line(code, line_number, code_scopes, line_number_for_scope, ub, line_parse_result) ==
  IF line_parse_result.crash THEN ParsedCode(FALSE, code_scopes, -1, TRUE)
  ELSE IF ~line_parse_result.ok THEN ParsedCode(FALSE, code_scopes, -1, FALSE)
  ELSE IF Len(code_scopes) = 0 THEN ParsedCode(FALSE, code_scopes, -1, TRUE)
  ELSE IF line_parse_result.result.type = "Loop"
  THEN parse_code_lines(code, line_number + 1,
         Append([code_scopes EXCEPT ![Len(code_scopes)] =
                   Append(@, line_parse_result.result)],
                line_parse_result.result.children),
         Append(line_number_for_scope, line_number + 1), ub)
  ELSE IF line_parse_result.result.type = "Parenthesis"
  THEN parse_code_lines(code, line_number + 1,
         PopCodeScope(code_scopes),
         SubSeq(line_number_for_scope, 1, Len(code_scopes) - 1), ub)
  ELSE parse_code_lines(code, line_number + 1,
         [code_scopes EXCEPT ![Len(code_scopes)] = Append(@, line_parse_result.result)],
         line_number_for_scope, ub)

parse_code_lines(code, line_number, code_scopes, line_number_for_scope, ub) ==
  IF line_number >= Len(code)
  THEN IF Len(code_scopes) # 1
       THEN IF line_number_for_scope = <<>>
            THEN ParsedCode(FALSE, code_scopes, -1, ub.back = "crash")
            ELSE ParsedCode(FALSE, code_scopes,
                            line_number_for_scope[Len(line_number_for_scope)], FALSE)
       ELSE ParsedCode(TRUE, code_scopes, -1, FALSE)
  ELSE parse_code_line(code, line_number, code_scopes, line_number_for_scope, ub,
                       parse_line(At(code, line_number), ub))

parse_code(code, ub) == parse_code_lines(code, 0, <<<<>>>>, <<-1>>, ub)

(***************************************************************************)
(* State: the scope store.  A value is a std::any: NoValue has no value,   *)
(* Double(v) holds a double.  A scope is a function from names to values.  *)
(***************************************************************************)
NoValue == [kind |-> "none", v |-> 0]

Double(v) == [kind |-> "double", v |-> v]

\* a std::string held by a std::any: its text
String(v) == [kind |-> "string", v |-> v]

has_value(value) == value.kind # "none"

EmptyScope == << >>

\* scope[variable] = value
Bind(scope, variable, value) ==
  [n \in (DOMAIN scope) \cup {variable} |-> IF n = variable THEN value ELSE scope[n]]

Looked(ok, value) == [ok |-> ok, value |-> value]

Stored(ok, scopes) == [ok |-> ok, scopes |-> scopes]

open_new_scope(scopes) == Append(scopes, EmptyScope)

\* a close_scope that pops whatever the depth
close_scope_at_any_depth(scopes) ==
  IF Len(scopes) < 1 THEN Stored(FALSE, scopes)
  ELSE Stored(TRUE, SubSeq(scopes, 1, Len(scopes) - 1))

close_scope(scopes) ==
  IF Len(scopes) <= 1 THEN Stored(FALSE, scopes)
  ELSE Stored(TRUE, SubSeq(scopes, 1, Len(scopes) - 1))

value_for_variable_in_current_scope(scopes, variable) ==
  LET back == scopes[Len(scopes)]
  IN IF variable \in DOMAIN back THEN Looked(TRUE, back[variable])
     ELSE Looked(FALSE, NoValue)

value_for_variable(scopes, variable) ==
  LET found == {i \in 1..Len(scopes) : variable \in DOMAIN scopes[i]}
  IN IF found = {} THEN Looked(FALSE, NoValue)
     ELSE Looked(TRUE, scopes[Max(found)][variable])

\* a set_value_for_variable that looks the variable up in the current scope only
set_value_for_variable_of_current_scope(scopes, variable, value) ==
  IF ~value_for_variable_in_current_scope(scopes, variable).ok THEN Stored(FALSE, scopes)
  ELSE IF ~has_value(value) THEN Stored(FALSE, scopes)
  ELSE Stored(TRUE, [scopes EXCEPT ![Len(scopes)] = Bind(@, variable, value)])

\* a define_variable_with_value that looks the variable up in every scope
define_variable_unless_bound_anywhere(scopes, variable, value) ==
  IF value_for_variable(scopes, variable).ok THEN Stored(FALSE, scopes)
  ELSE IF ~has_value(value) THEN Stored(FALSE, scopes)
  ELSE Stored(TRUE, [scopes EXCEPT ![Len(scopes)] = Bind(@, variable, value)])

\* a define_variable_with_value that does not look the variable up first
define_variable_without_lookup(scopes, variable, value) ==
  IF ~has_value(value) THEN Stored(FALSE, scopes)
  ELSE Stored(TRUE, [scopes EXCEPT ![Len(scopes)] = Bind(@, variable, value)])

define_variable_with_value(scopes, variable, value) ==
  IF value_for_variable_in_current_scope(scopes, variable).ok THEN Stored(FALSE, scopes)
  ELSE IF ~has_value(value) THEN Stored(FALSE, scopes)
  ELSE Stored(TRUE, [scopes EXCEPT ![Len(scopes)] = Bind(@, variable, value)])

set_value_for_variable(scopes, variable, value) ==
  IF ~value_for_variable(scopes, variable).ok THEN Stored(FALSE, scopes)
  ELSE IF ~has_value(value) THEN Stored(FALSE, scopes)
  ELSE Stored(TRUE, [scopes EXCEPT ![Len(scopes)] = Bind(@, variable, value)])

(***************************************************************************)
(* Interpreter.  An interpretation returns [ok, value, scopes, errors]:    *)
(* the std::any result, the scope store it leaves and the error messages   *)
(* it printed, each a piece of text; a name a message quotes follows it    *)
(* character by character.                                                 *)
(***************************************************************************)
Interpreted(ok, value, scopes, errors) ==
  [ok |-> ok, value |-> value, scopes |-> scopes, errors |-> errors]

\* the double M_PI
M_PI == (314159 * Scale) \div 100000

(***************************************************************************)
(* Arithmetic on doubles and std::to_string(double).  A double rounds to   *)
(* the nearest value it can hold (here: FracDigits decimals), ties to      *)
(* even.  std::to_string prints with "%f": 6 fraction digits, far fewer    *)
(* than a double holds; the model keeps the relation and prints one digit  *)
(* fewer than FracDigits.  Arithmetic on inf and nan is not modelled.      *)
(***************************************************************************)
\* p / q for q > 0, rounded to the nearest integer, ties to even
RoundDiv(p, q) ==
  LET floor == p \div q
      rest == p % q
  IN IF 2 * rest > q THEN floor + 1
     ELSE IF 2 * rest < q THEN floor
     ELSE IF floor % 2 = 0 THEN floor ELSE floor + 1

\* lhs_value * rhs_value
Multiply(lhs_value, rhs_value) == RoundDiv(lhs_value * rhs_value, Scale)

\* lhs_value / rhs_value
Divide(lhs_value, rhs_value) ==
  IF rhs_value > 0 THEN RoundDiv(lhs_value * Scale, rhs_value)
  ELSE IF rhs_value < 0 THEN RoundDiv(0 - lhs_value * Scale, 0 - rhs_value)
  ELSE IF lhs_value > 0 THEN Infinity
  ELSE IF lhs_value < 0 THEN 0 - Infinity
  ELSE NaN

\* fraction digits std::to_string prints
to_string_digits == FracDigits - 1

\* std::to_string(double)
to_string(value) ==
  IF value = Infinity THEN <<"i", "n", "f">>
  ELSE IF value = 0 - Infinity THEN <<"-", "i", "n", "f">>
  ELSE IF value = NaN THEN <<"n", "a", "n">>
  ELSE LET magnitude == IF value < 0 THEN 0 - value ELSE value
           units == RoundDiv(magnitude, Pow10(FracDigits - to_string_digits))
       IN (IF value < 0 THEN <<"-">> ELSE <<>>)
          \o DigitsText(units \div Pow10(to_string_digits), 1)
          \o (IF to_string_digits > 0
              THEN <<".">> \o DigitsText(units % Pow10(to_string_digits), to_string_digits)
              ELSE <<>>)

number_from_value(value) == [ok |-> value.kind = "double", number |-> value.v]

\* the names that have an implementation
builtin_functions ==
  { <<"c", "l", "e", "a", "r">>,
    <<"c", "i", "r", "c", "l", "e">>,
    <<"c", "o", "s">>,
    <<"c", "o", "s", "h">>,
    <<"e", "x", "p">>,
    <<"l", "o", "g">>,
    <<"l", "i", "n", "e">>,
    <<"p", "r", "i", "n", "t">>,
    <<"s", "a", "v", "e">>,
    <<"s", "i", "n">>,
    <<"s", "i", "n", "h">>,
    <<"r", "a", "n", "d", "o", "m">> }

\* interpret_function up to the call of the implementation, which is not modelled
interpret_function(function_call) ==
  IF function_call.type # "Function"
  THEN [found |-> FALSE, errors |-> <<"Expected function">>]
  ELSE IF function_call.value \in builtin_functions
  THEN [found |-> TRUE, errors |-> <<>>]
  ELSE [found |-> FALSE, errors |-> <<"No function definition found.">>]

\* a check of the root only
parse_result_is_valid_at_root(result) == result.type # "Error"

RECURSIVE parse_result_is_valid(_)
parse_result_is_valid(result) ==
  /\ result.type # "Error"
  /\ \A i \in 1..Len(result.children) : parse_result_is_valid(result.children[i])

interpret_number(input, scopes) ==
  IF stod(input.value).ok
  THEN Interpreted(TRUE, Double(stod(input.value).value), scopes, <<>>)
  ELSE IF input.value = M_PI_string THEN Interpreted(TRUE, Double(M_PI), scopes, <<>>)
  ELSE Interpreted(FALSE, NoValue, scopes, <<"Invalid argument">>)

\* an interpret_variable whose error message does not name the variable
interpret_variable_without_name(input, scopes) ==
  LET found == value_for_variable(scopes, input.value)
  IN IF found.ok THEN Interpreted(TRUE, found.value, scopes, <<>>)
     ELSE Interpreted(FALSE, NoValue, scopes, <<"Use of undeclared variable">>)

\* the message is followed by the name of the variable, character by character
interpret_variable(input, scopes) ==
  LET found == value_for_variable(scopes, input.value)
  IN IF found.ok THEN Interpreted(TRUE, found.value, scopes, <<>>)
     ELSE Interpreted(FALSE, NoValue, scopes,
                      <<"Use of undeclared variable">> \o input.value)

interpret_unknown(input, scopes) ==
  IF input.type # "Unknown"
  THEN Interpreted(FALSE, NoValue, scopes, <<"Unexpectedly found">>)
  ELSE IF input.children # <<>> THEN Interpreted(FALSE, NoValue, scopes, <<>>)
  ELSE interpret_variable(input, scopes)

RECURSIVE interpret_parse_result(_, _)
RECURSIVE interpret_assignment(_, _)

\* `var name = ...` once the right-hand side is interpreted
interpret_declaration(variable, value_interpretation, defined) ==
  IF ~value_interpretation.ok
  THEN Interpreted(FALSE, NoValue, value_interpretation.scopes, value_interpretation.errors)
  ELSE IF ~defined.ok
  THEN Interpreted(FALSE, NoValue, defined.scopes,
         value_interpretation.errors \o
         (IF ~has_value(value_interpretation.value)
          THEN <<"Right hand side of assignment did not have a value">>
          ELSE <<"Redefinition">>))
  ELSE Interpreted(TRUE, value_interpretation.value, defined.scopes,
                   value_interpretation.errors)

\* `name = ...` once the right-hand side is interpreted
interpret_reassignment(variable, value_interpretation, assigned) ==
  IF ~value_interpretation.ok
  THEN Interpreted(FALSE, NoValue, value_interpretation.scopes, value_interpretation.errors)
  ELSE IF ~assigned.ok
  THEN Interpreted(FALSE, NoValue, assigned.scopes,
         value_interpretation.errors \o
         (IF ~has_value(value_interpretation.value)
          THEN <<"Right hand side of assignment did not have a value">>
          ELSE <<"Trying to assign to undefined variable">>))
  ELSE Interpreted(TRUE, value_interpretation.value, assigned.scopes,
                   value_interpretation.errors)

interpret_declaration_value(variable, value_interpretation) ==
  interpret_declaration(variable, value_interpretation,
    define_variable_with_value(value_interpretation.scopes, variable,
                               value_interpretation.value))

interpret_reassignment_value(variable, value_interpretation) ==
  interpret_reassignment(variable, value_interpretation,
    set_value_for_variable(value_interpretation.scopes, variable,
                           value_interpretation.value))

interpret_assignment(input, scopes) ==
  IF ~parse_result_is_valid(input)
  THEN Interpreted(FALSE, NoValue, scopes, <<"An error occurred while parsing">>)
  ELSE IF At(input.children, 0).type = "Assignment"
  THEN
    IF Len(input.children) # 3
    THEN Interpreted(FALSE, NoValue, scopes, <<"Invalid assignment">>)
    ELSE IF At(input.children, 1).type # "Variable"
    THEN Interpreted(FALSE, NoValue, scopes, <<"Invalid assignment">>)
    ELSE IF At(input.children, 1).value = <<>>
    THEN Interpreted(FALSE, NoValue, scopes, <<"Invalid assignment">>)
    ELSE IF At(At(input.children, 1).value, 0) = "_"
    THEN Interpreted(FALSE, NoValue, scopes, <<"Variables starting with '_'">>)
    ELSE interpret_declaration_value(At(input.children, 1).value,
           interpret_parse_result(At(input.children, 2), scopes))
  ELSE
    IF Len(input.children) # 2
    THEN Interpreted(FALSE, NoValue, scopes, <<"Invalid assignment">>)
    ELSE interpret_reassignment_value(At(input.children, 0).value,
           interpret_parse_result(At(input.children, 1), scopes))

(***************************************************************************)
(* interpret_expression.  The first loop evaluates every `*` and `/` and   *)
(* puts the result, printed by std::to_string, back as a Number into       *)
(* remaining_expression; the second folds what is left with `+` and `-`.   *)
(***************************************************************************)
RECURSIVE interpret_expression_products(_, _, _, _)

\* the result of the first loop: [ok, remaining_expression, errors]
Reduced(ok, remaining_expression, errors) ==
  [ok |-> ok, remaining_expression |-> remaining_expression, errors |-> errors]

\* the `*` or `/` at index, its two sides interpreted
interpret_expression_product(input, index, remaining_expression, scopes, lhs_result, rhs_result) ==
  IF ~lhs_result.ok
  THEN Reduced(FALSE, remaining_expression,
         lhs_result.errors \o <<"Could not interpret left hand side of operation">>)
  ELSE IF ~number_from_value(lhs_result.value).ok
  THEN Reduced(FALSE, remaining_expression,
         <<"Left hand side of operation could not be interpreted as number">>)
  ELSE IF ~rhs_result.ok
  THEN Reduced(FALSE, remaining_expression,
         rhs_result.errors \o <<"Could not interpret right hand side of operation">>)
  ELSE IF ~number_from_value(rhs_result.value).ok
  THEN Reduced(FALSE, remaining_expression,
         <<"Right hand side of operation could not be interpreted as number">>)
  ELSE interpret_expression_products(input, index + 2,
         Append(SubSeq(remaining_expression, 1, Len(remaining_expression) - 1),
                ParseResult("Number",
                  to_string(IF At(input.children, index).value = <<"*">>
                            THEN Multiply(lhs_result.value.v, rhs_result.value.v)
                            ELSE Divide(lhs_result.value.v, rhs_result.value.v)),
                  <<>>)),
         scopes)

\* the first loop of interpret_expression, at index
interpret_expression_products(input, index, remaining_expression, scopes) ==
  IF index >= Len(input.children) THEN Reduced(TRUE, remaining_expression, <<>>)
  ELSE IF At(input.children, index).type = "Operator" /\ index % 2 # 1
  THEN Reduced(FALSE, remaining_expression,
               <<"Unexpected operator found at an even index in the expression">>)
  ELSE IF /\ At(input.children, index).type = "Operator"
          /\ At(input.children, index).value \in {<<"*">>, <<"/">>}
  THEN interpret_expression_product(input, index, remaining_expression, scopes,
         interpret_parse_result(remaining_expression[Len(remaining_expression)], scopes),
         interpret_parse_result(At(input.children, index + 1), scopes))
  ELSE interpret_expression_products(input, index + 1,
         Append(remaining_expression, At(input.children, index)), scopes)

RECURSIVE interpret_expression_sum(_, _, _, _, _)

\* the operand at index of the second loop, interpreted
interpret_expression_operand(remaining_expression, index, final_result, current_operation, scopes, operand_result) ==
  IF ~operand_result.ok
  THEN Interpreted(FALSE, NoValue, scopes,
         operand_result.errors \o <<"Could not interpret operand">>)
  ELSE IF ~number_from_value(operand_result.value).ok
  THEN Interpreted(FALSE, NoValue, scopes,
         <<"Operand could not be interpreted as number">>)
  ELSE interpret_expression_sum(remaining_expression, index + 1,
         IF current_operation = <<"+">> THEN final_result + operand_result.value.v
         ELSE final_result - operand_result.value.v,
         current_operation, scopes)

\* the second loop of interpret_expression, at index
interpret_expression_sum(remaining_expression, index, final_result, current_operation, scopes) ==
  IF index >= Len(remaining_expression)
  THEN Interpreted(TRUE, Double(final_result), scopes, <<>>)
  ELSE IF index % 2 = 0
  THEN interpret_expression_operand(remaining_expression, index, final_result,
         current_operation, scopes,
         interpret_parse_result(At(remaining_expression, index), scopes))
  ELSE IF At(remaining_expression, index).type # "Operator"
  THEN Interpreted(FALSE, NoValue, scopes, <<"Expected operator but found">>)
  ELSE interpret_expression_sum(remaining_expression, index + 1, final_result,
         At(remaining_expression, index).value, scopes)

\* the single term the expression has been reduced to, interpreted
interpret_expression_single(single_result) ==
  IF single_result.ok THEN single_result
  ELSE Interpreted(FALSE, single_result.value, single_result.scopes,
         single_result.errors \o
         <<"Expression evaluated to a single term that could not be interpreted">>)

\* interpret_expression after its first loop
interpret_expression_remaining(reduced, scopes) ==
  IF ~reduced.ok THEN Interpreted(FALSE, NoValue, scopes, reduced.errors)
  ELSE IF Len(reduced.remaining_expression) = 1
  THEN interpret_expression_single(
         interpret_parse_result(reduced.remaining_expression[1], scopes))
  ELSE IF Len(reduced.remaining_expression) > 1
  THEN interpret_expression_sum(reduced.remaining_expression, 0, 0, <<"+">>, scopes)
  ELSE Interpreted(FALSE, NoValue, scopes, <<"Could not evaluate empty expression">>)

interpret_expression(input, scopes) ==
  interpret_expression_remaining(interpret_expression_products(input, 0, <<>>, scopes),
                                 scopes)

\* what interpret_loop has found when it reaches the while loop
LoopBegun(ok, scopes, errors, loop_variable_name, lower_bound, step_size, upper_bound) ==
  [ok |-> ok, scopes |-> scopes, errors |-> errors,
   loop_variable_name |-> loop_variable_name, lower_bound |-> lower_bound,
   step_size |-> step_size, upper_bound |-> upper_bound]

LoopNotBegun(scopes, errors) == LoopBegun(FALSE, scopes, errors, <<>>, 0, 0, 0)

\* interpret_loop from the upper bound of the range on
interpret_loop_upper_bound(loop, lower_bound, step_size, upper_bound_result) ==
  IF ~(upper_bound_result.ok /\ number_from_value(upper_bound_result.value).ok)
  THEN LoopNotBegun(upper_bound_result.scopes,
         upper_bound_result.errors \o <<"Could not interpret upper bound of range">>)
  ELSE LoopBegun(TRUE,
         define_variable_with_value(upper_bound_result.scopes,
                                    At(loop.children, 0).value,
                                    Double(lower_bound)).scopes,
         <<>>, At(loop.children, 0).value, lower_bound, step_size,
         number_from_value(upper_bound_result.value).number)

\* interpret_loop from the step size of the range on
interpret_loop_step_size(loop, lower_bound, step_size_result) ==
  IF ~(step_size_result.ok /\ number_from_value(step_size_result.value).ok)
  THEN LoopNotBegun(step_size_result.scopes,
         step_size_result.errors \o <<"Could not interpret step size of range">>)
  ELSE interpret_loop_upper_bound(loop, lower_bound,
         number_from_value(step_size_result.value).number,
         interpret_parse_result(At(At(loop.children, 1).children, 2),
                                step_size_result.scopes))

\* interpret_loop from the lower bound of the range on
interpret_loop_lower_bound(loop, lower_bound_result) ==
  IF ~(lower_bound_result.ok /\ number_from_value(lower_bound_result.value).ok)
  THEN LoopNotBegun(lower_bound_result.scopes,
         lower_bound_result.errors \o <<"Could not interpret lower bound of range">>)
  ELSE interpret_loop_step_size(loop,
         number_from_value(lower_bound_result.value).number,
         interpret_parse_result(At(At(loop.children, 1).children, 1),
                                lower_bound_result.scopes))

\* interpret_loop up to the first test of the loop condition
interpret_loop_begin(loop, scopes) ==
  IF loop.type # "Loop" THEN LoopNotBegun(scopes, <<"Unexpectedly found">>)
  ELSE IF Len(loop.children) < 3
  THEN LoopNotBegun(scopes, <<"Invalid number of arguments for loop">>)
  ELSE IF At(loop.children, 0).type \notin {"Unknown", "Variable"}
  THEN LoopNotBegun(open_new_scope(scopes), <<"Expected variable name">>)
  ELSE IF At(loop.children, 1).type # "Range"
  THEN LoopNotBegun(open_new_scope(scopes), <<"Expected Range">>)
  ELSE IF Len(At(loop.children, 1).children) # 3
  THEN LoopNotBegun(open_new_scope(scopes),
                    <<"Invalid number of argument in range definition">>)
  ELSE interpret_loop_lower_bound(loop,
         interpret_parse_result(At(At(loop.children, 1).children, 0),
                                open_new_scope(scopes)))

\* a loop that did not reach its while loop, as an interpretation
LoopNotInterpreted(begun) == Interpreted(FALSE, NoValue, begun.scopes, begun.errors)

\* [ok, str]; a Pol is not modelled
string_representation_of_interpretation_result(result) ==
  IF result.kind = "double" THEN [ok |-> TRUE, str |-> to_string(result.v)]
  ELSE IF result.kind = "string" THEN [ok |-> TRUE, str |-> result.v]
  ELSE [ok |-> FALSE, str |-> <<>>]

RECURSIVE interpret_string_parts(_, _, _, _)

\* the string part at index interpreted: its representation is appended
interpret_string_part(input, index, final_string, string_part_value) ==
  IF ~string_part_value.ok
  THEN Interpreted(FALSE, NoValue, string_part_value.scopes, string_part_value.errors)
  ELSE IF ~string_representation_of_interpretation_result(string_part_value.value).ok
  THEN Interpreted(FALSE, NoValue, string_part_value.scopes,
                   <<"could not be interpreted as string">>)
  ELSE interpret_string_parts(input, index + 1,
         final_string
           \o string_representation_of_interpretation_result(string_part_value.value).str,
         string_part_value.scopes)

\* the loop of interpret_string over the children of the string, at index
interpret_string_parts(input, index, final_string, scopes) ==
  IF index >= Len(input.children)
  THEN Interpreted(TRUE, String(final_string), scopes, <<>>)
  ELSE interpret_string_part(input, index, final_string,
         interpret_parse_result(At(input.children, index), scopes))

interpret_string(input, scopes) ==
  IF input.type # "String"
  THEN Interpreted(FALSE, NoValue, scopes, <<"Unexpectedly found">>)
  ELSE IF input.children = <<>> THEN Interpreted(TRUE, String(input.value), scopes, <<>>)
  ELSE interpret_string_parts(input, 0, <<>>, scopes)

\* known_interpretations; a Loop that is a statement is interpreted step by step
\* by the actions below, a Loop inside a statement has no body.  Function
\* calls and initializations are not modelled.
interpret_parse_result(input, scopes) ==
  CASE input.type = "Error" ->
         Interpreted(FALSE, NoValue, scopes, <<"Cannot interpret statemet of type">>)
    [] input.type = "Empty" -> Interpreted(TRUE, NoValue, scopes, <<>>)
    [] input.type = "Assignment" -> interpret_assignment(input, scopes)
    [] input.type = "Number" -> interpret_number(input, scopes)
    [] input.type = "Unknown" -> interpret_unknown(input, scopes)
    [] input.type = "Variable" -> interpret_variable(input, scopes)
    [] input.type = "Expression" -> interpret_expression(input, scopes)
    [] input.type = "String" -> interpret_string(input, scopes)
    [] input.type = "Loop" /\ Len(input.children) < 3 ->
         LoopNotInterpreted(interpret_loop_begin(input, scopes))
    [] input.type \in {"Range", "Parenthesis", "Operator"} ->
         Interpreted(FALSE, NoValue, scopes, <<"No interpretation defined">>)

\* lines 593-632 of interpret_loop: the value of the loop variable after the
\* body, [ok, loop_variable]
loop_variable_after_body(scopes, loop_variable_name, loop_variable) ==
  LET current == value_for_variable_in_current_scope(scopes, loop_variable_name)
      loop_variable_value == IF current.ok THEN current.value ELSE Double(loop_variable)
  IN IF ~current.ok /\ number_from_value(loop_variable_value).ok
     THEN [ok |-> FALSE, loop_variable |-> number_from_value(loop_variable_value).number]
     ELSE [ok |-> TRUE, loop_variable |-> loop_variable]

(***************************************************************************)
(* The REPL (launch_REPL) and the interpreter as a state machine.          *)
(*                                                                         *)
(* scopes                    State::scopes                                 *)
(* frames                    the call stack of the interpreter: one frame  *)
(*                           for interpret_code and one for each           *)
(*                           interpret_loop that is running                *)
(* returned                  the call on top of the stack has just been    *)
(*                           handed the result false by its callee         *)
(* errors                    the messages printed since the line was read  *)
(* code                      the lines the REPL has collected              *)
(* number_of_open_for_loops  launch_REPL's counter                         *)
(* parse_result              the parse result of the last line read        *)
(* interpretation_result     the std::any that interpret_code fills and    *)
(*                           launch_REPL prints                            *)
(* line, outcome, lastLoop   history: the last line read, what became of   *)
(*                           it, and the interpret_loop call that returned *)
(*                           in the last step                              *)
(* call                      history of the scope-store specification: the *)
(*                           last call of a State method                   *)
(***************************************************************************)
VARIABLES scopes, frames, returned, errors, code, number_of_open_for_loops,
          parse_result, interpretation_result, line, outcome, lastLoop, call

vars == <<scopes, frames, returned, errors, code, number_of_open_for_loops,
          parse_result, interpretation_result, line, outcome, lastLoop, call>>

NoStatement == ParseResult("Empty", <<>>, <<>>)

NoLoop ==
  [valid |-> FALSE, ok |-> FALSE, entered |-> FALSE, loop |-> NoStatement,
   before |-> <<>>, lower_bound |-> 0, step_size |-> 0, upper_bound |-> 0,
   iterations |-> <<>>, completed |-> 0]

NoCall == [op |-> "none", ret |-> FALSE, variable |-> <<>>, value |-> NoValue,
           before |-> <<>>]

\* the frame of interpret_code(parsed_code)
CodeFrame(parsed_code) ==
  [kind |-> "code", children |-> parsed_code, index |-> 0, pc |-> "body",
   loop_variable_name |-> <<>>, loop_variable |-> 0, step_size |-> 0,
   upper_bound |-> 0, loop |-> NoStatement, before |-> <<>>, lower_bound |-> 0,
   iterations |-> <<>>, completed |-> 0]

\* the frame of interpret_loop(loop) when it reaches the while loop; before,
\* lower_bound, iterations and completed are history
LoopFrame(loop, begun, before) ==
  [kind |-> "loop", children |-> loop.children, index |-> 2, pc |-> "test",
   loop_variable_name |-> begun.loop_variable_name,
   loop_variable |-> begun.lower_bound, step_size |-> begun.step_size,
   upper_bound |-> begun.upper_bound, loop |-> loop, before |-> before,
   lower_bound |-> begun.lower_bound, iterations |-> <<>>, completed |-> 0]

\* what is recorded of an interpret_loop call when it returns
LoopReturned(frame, ok) ==
  [valid |-> TRUE, ok |-> ok, entered |-> TRUE, loop |-> frame.loop,
   before |-> frame.before, lower_bound |-> frame.lower_bound,
   step_size |-> frame.step_size, upper_bound |-> frame.upper_bound,
   iterations |-> frame.iterations, completed |-> frame.completed]

Top == frames[Len(frames)]

CurrentStatement == At(Top.children, Top.index)

Running == frames # <<>> /\ ~returned /\ outcome # "crashed"

Init ==
  /\ scopes = <<EmptyScope>>
  /\ frames = <<>>
  /\ returned = FALSE
  /\ errors = <<>>
  /\ code = <<>>
  /\ number_of_open_for_loops = 0
  /\ parse_result = ParseResult("Unknown", <<>>, <<>>)
  /\ interpretation_result = NoValue
  /\ line = <<>>
  /\ outcome = "started"
  /\ lastLoop = NoLoop
  /\ call = NoCall

\* the pass from the second parse (parse_code of the collected lines) on
ReadParsedCode(parsed, code_parsed, open_counted, parsed_code) ==
  IF parsed.crash
  THEN /\ outcome' = "crashed"
       /\ errors' = <<>>
       /\ UNCHANGED <<frames, code, number_of_open_for_loops>>
  ELSE IF open_counted > 0
  THEN /\ outcome' = "collecting"
       /\ errors' = <<>>
       /\ code' = code_parsed
       /\ number_of_open_for_loops' = open_counted
       /\ UNCHANGED frames
  ELSE IF parsed_code.crash
  THEN /\ outcome' = "crashed"
       /\ errors' = <<>>
       /\ code' = code_parsed
       /\ number_of_open_for_loops' = open_counted
       /\ UNCHANGED frames
  ELSE /\ outcome' = IF ~parsed.ok THEN "line rejected"
                     ELSE IF ~parsed_code.ok THEN "code rejected"
                     ELSE "interpreting"
       /\ errors' = IF parsed.ok /\ parsed_code.ok THEN <<>>
                    ELSE <<"Could not parse code. Not interpreting.">>
       /\ code' = IF parsed_code.ok THEN code_parsed ELSE <<>>
       /\ number_of_open_for_loops' = IF parsed_code.ok THEN open_counted ELSE 0
       /\ frames' = <<CodeFrame(IF parsed_code.ok THEN parsed_code.parsed_code
                                ELSE <<>>)>>

\* the pass from the first parse (parse_string of the line) on
ReadParsed(code_line, ub, parsed, code_parsed, open_parsed) ==
  /\ line' = code_line
  /\ parse_result' = parsed.result
  /\ interpretation_result' = NoValue
  /\ lastLoop' = NoLoop
  /\ returned' = FALSE
  /\ UNCHANGED <<scopes, call>>
  /\ ReadParsedCode(parsed, code_parsed,
                    IF parsed.result.type = "Loop" THEN open_parsed + 1
                    ELSE IF parsed.result.type = "Parenthesis" THEN open_parsed - 1
                    ELSE open_parsed,
                    parse_code(code_parsed, ub))

ReadParsedLine(code_line, ub, parsed) ==
  ReadParsed(code_line, ub, parsed,
             IF parsed.ok THEN Append(code, code_line) ELSE <<>>,
             IF parsed.ok THEN number_of_open_for_loops ELSE 0)

\* one pass of the while loop of launch_REPL up to the call of interpret_code
ReadLine(code_line, ub) ==
  /\ frames = <<>>
  /\ outcome # "crashed"
  /\ Len(scopes) <= MaxScopes
  /\ Len(code) < MaxCode
  /\ ReadParsedLine(code_line, ub, parse_line(code_line, ub))

\* a failure that is reported but does not end the frame on top
FailAndGoOn(frame_errors) ==
  /\ errors' = errors \o frame_errors
  /\ frames' = [frames EXCEPT ![Len(frames)].index = @ + 1]
  /\ lastLoop' = NoLoop
  /\ UNCHANGED returned

\* the callee of the frame on top returned false: the frame returns false too
Fail(frame_errors) ==
  /\ errors' = errors \o frame_errors
  /\ returned' = TRUE
  /\ IF Top.kind = "loop"
     THEN /\ frames' = SubSeq(frames, 1, Len(frames) - 1)
          /\ lastLoop' = LoopReturned(Top, FALSE)
     ELSE /\ frames' = frames
          /\ lastLoop' = NoLoop

\* the statement on top has been interpreted
StatementInterpreted(interpretation) ==
  /\ scopes' = interpretation.scopes
  /\ interpretation_result' = IF Top.kind = "code" THEN interpretation.value ELSE interpretation_result
  /\ IF interpretation.ok
     THEN /\ frames' = [frames EXCEPT ![Len(frames)].index = @ + 1]
          /\ errors' = errors \o interpretation.errors
          /\ lastLoop' = NoLoop
          /\ UNCHANGED returned
     ELSE Fail(interpretation.errors)

\* interpret_parse_result of the next statement of interpret_code or of a loop body
InterpretStatement ==
  /\ Running
  /\ Top.pc = "body"
  /\ Top.index < Len(Top.children)
  /\ CurrentStatement.type # "Loop"
  /\ StatementInterpreted(interpret_parse_result(CurrentStatement, scopes))
  /\ UNCHANGED <<code, number_of_open_for_loops, parse_result, line, outcome, call>>

\* the loop on top has reached its while loop, or has returned false before
LoopEntered(begun) ==
  /\ scopes' = begun.scopes
  /\ interpretation_result' = IF Top.kind = "code" THEN NoValue ELSE interpretation_result
  /\ errors' = errors \o begun.errors
  /\ IF begun.ok
     THEN /\ frames' = Append(frames, LoopFrame(CurrentStatement, begun, scopes))
          /\ lastLoop' = NoLoop
          /\ UNCHANGED returned
     ELSE /\ returned' = TRUE
          /\ lastLoop' = [NoLoop EXCEPT !.valid = TRUE, !.loop = CurrentStatement,
                                        !.before = scopes]
          /\ UNCHANGED frames

\* interpret_loop from its entry to the first test of the loop condition
EnterLoop ==
  /\ Running
  /\ Top.pc = "body"
  /\ Top.index < Len(Top.children)
  /\ CurrentStatement.type = "Loop"
  /\ LoopEntered(interpret_loop_begin(CurrentStatement, scopes))
  /\ UNCHANGED <<code, number_of_open_for_loops, parse_result, line, outcome, call>>

\* while (loop_variable <= upper_bound): the condition holds
LoopIterate ==
  /\ Running
  /\ Top.kind = "loop" /\ Top.pc = "test"
  /\ Top.loop_variable <= Top.upper_bound
  /\ frames' = [frames EXCEPT ![Len(frames)] =
                  [@ EXCEPT !.pc = "body", !.index = 2,
                            !.iterations =
                               IF Len(@) < MaxPasses
                               THEN Append(@, value_for_variable(scopes,
                                                Top.loop_variable_name).value)
                               ELSE @]]
  /\ lastLoop' = NoLoop
  /\ UNCHANGED <<scopes, returned, errors, code, number_of_open_for_loops,
                 parse_result, interpretation_result, line, outcome, call>>

\* the loop variable has been stepped and written back
LoopStepped(stepped, updated) ==
  IF ~updated.ok
  THEN /\ Fail(<<"Unable to update loop variable">>)
       /\ UNCHANGED scopes
  ELSE /\ scopes' = updated.scopes
       /\ frames' = [frames EXCEPT ![Len(frames)] =
                       [@ EXCEPT !.pc = "test", !.loop_variable = stepped,
                                 !.completed = Min({@ + 1, MaxPasses})]]
       /\ lastLoop' = NoLoop
       /\ UNCHANGED <<returned, errors>>

\* the loop variable has been read back after the body
LoopReadBack(after) ==
  IF ~after.ok
  THEN /\ Fail(<<"Loop variable could not be interpreted as number">>)
       /\ UNCHANGED scopes
  ELSE LoopStepped(after.loop_variable + Top.step_size,
                   set_value_for_variable(scopes, Top.loop_variable_name,
                                          Double(after.loop_variable + Top.step_size)))

\* the body has been interpreted: the loop variable is stepped
LoopIncrement ==
  /\ Running
  /\ Top.kind = "loop" /\ Top.pc = "body"
  /\ Top.index >= Len(Top.children)
  /\ LoopReadBack(loop_variable_after_body(scopes, Top.loop_variable_name,
                                           Top.loop_variable))
  /\ UNCHANGED <<code, number_of_open_for_loops, parse_result, interpretation_result, line,
                 outcome, call>>

\* the scope of the loop on top has been closed
LoopClosed(closed) ==
  /\ scopes' = closed.scopes
  /\ lastLoop' = LoopReturned(Top, closed.ok)
  /\ returned' = ~closed.ok
  /\ errors' = errors \o (IF closed.ok THEN <<>> ELSE <<"Could not close loop-scope">>)
  /\ frames' = IF closed.ok
               THEN [SubSeq(frames, 1, Len(frames) - 1)
                       EXCEPT ![Len(frames) - 1].index = @ + 1]
               ELSE SubSeq(frames, 1, Len(frames) - 1)

\* the loop condition fails: the scope of the loop is closed, the loop returns
LoopExit ==
  /\ Running
  /\ Top.kind = "loop" /\ Top.pc = "test"
  /\ ~(Top.loop_variable <= Top.upper_bound)
  /\ LoopClosed(close_scope(scopes))
  /\ UNCHANGED <<code, number_of_open_for_loops, parse_result, interpretation_result, line,
                 outcome, call>>

\* a statement of a loop body was a loop that returned false: return false
PropagateFailure ==
  /\ frames # <<>> /\ returned
  /\ Top.kind = "loop"
  /\ Fail(<<>>)
  /\ UNCHANGED <<scopes, code, number_of_open_for_loops, parse_result, interpretation_result,
                 line, outcome, call>>

\* interpret_code returns to launch_REPL, which finishes the pass
ReturnToPrompt ==
  /\ frames # <<>>
  /\ Top.kind = "code"
  /\ returned \/ Top.index >= Len(Top.children)
  /\ frames' = <<>>
  /\ returned' = FALSE
  /\ code' = <<>>
  /\ number_of_open_for_loops' = IF returned THEN 0 ELSE number_of_open_for_loops
  /\ errors' = errors \o (IF returned THEN <<"(Code was not interpreted.)">> ELSE <<>>)
  /\ outcome' = IF returned THEN "failed"
                ELSE IF outcome = "interpreting" THEN "interpreted"
                ELSE outcome
  /\ lastLoop' = NoLoop
  /\ UNCHANGED <<scopes, parse_result, interpretation_result, line, call>>

Next ==
  \/ \E code_line \in Lines, ub \in UBOutcomes : ReadLine(code_line, ub)
  \/ InterpretStatement
  \/ EnterLoop
  \/ LoopIterate
  \/ LoopIncrement
  \/ LoopExit
  \/ PropagateFailure
  \/ ReturnToPrompt

Spec == Init /\ [][Next]_vars

(***************************************************************************)
(* The REPL fed with declaration lines only.                               *)
(***************************************************************************)
NextDecl ==
  \/ \E code_line \in DeclLines, ub \in UBOutcomes : ReadLine(code_line, ub)
  \/ InterpretStatement
  \/ ReturnToPrompt

SpecDecl == Init /\ [][NextDecl]_vars

(***************************************************************************)
(* The REPL fed with lines that refer to variables, in and out of loops.   *)
(***************************************************************************)
NextRefs ==
  \/ \E code_line \in RefLines, ub \in UBOutcomes : ReadLine(code_line, ub)
  \/ InterpretStatement
  \/ EnterLoop
  \/ LoopIterate
  \/ LoopIncrement
  \/ LoopExit
  \/ PropagateFailure
  \/ ReturnToPrompt

SpecRefs == Init /\ [][NextRefs]_vars

(***************************************************************************)
(* The REPL fed with arithmetic lines.                                     *)
(***************************************************************************)
NextExpr ==
  \/ \E code_line \in ExprLines \cup ParenLines, ub \in UBOutcomes : ReadLine(code_line, ub)
  \/ InterpretStatement
  \/ ReturnToPrompt

SpecExpr == Init /\ [][NextExpr]_vars

\* the REPL fed with declarations and assignments of a, in and out of loops
ShadowLines == {LineVarA, LineSetA, LineForI, LineForJ, LineClose}

NextShadow ==
  \/ \E code_line \in ShadowLines, ub \in UBOutcomes : ReadLine(code_line, ub)
  \/ InterpretStatement
  \/ EnterLoop
  \/ LoopIterate
  \/ LoopIncrement
  \/ LoopExit
  \/ PropagateFailure
  \/ ReturnToPrompt

SpecShadow == Init /\ [][NextShadow]_vars

\* the REPL fed with loops whose step is 1 and 0
LoopLines == {LineVarA, LineSetA, LineForI, LineForZero, LineClose}

NextLoop ==
  \/ \E code_line \in LoopLines, ub \in UBOutcomes : ReadLine(code_line, ub)
  \/ InterpretStatement
  \/ EnterLoop
  \/ LoopIterate
  \/ LoopIncrement
  \/ LoopExit
  \/ PropagateFailure
  \/ ReturnToPrompt

\* a step of the interpreter: every action but the reading of a line
Interpreting ==
  \/ InterpretStatement
  \/ EnterLoop
  \/ LoopIterate
  \/ LoopIncrement
  \/ LoopExit
  \/ PropagateFailure
  \/ ReturnToPrompt

\* the interpreter is one thread that runs a call it has begun: it takes a
\* step whenever it can
SpecLoop == Init /\ [][NextLoop]_vars /\ WF_vars(Interpreting)

\* the REPL fed with string literals
NextString ==
  \/ \E code_line \in StringLines, ub \in UBOutcomes : ReadLine(code_line, ub)
  \/ InterpretStatement
  \/ ReturnToPrompt

SpecString == Init /\ [][NextString]_vars

(***************************************************************************)
(* The interpreter called with parse trees that were not made by the       *)
(* Lexer: trees that hold an Error node below the root.                    *)
(***************************************************************************)
ErrorNode == ParseResult("Error", <<>>, <<>>)

NumberNode(value) == ParseResult("Number", value, <<>>)

\* the values of an assignment: two valid ones and three that hold an Error node
GateValues ==
  { NumberNode(<<"1">>),
    ParseResult("Expression", <<>>,
                <<NumberNode(<<"1">>), ParseResult("Operator", <<"+">>, <<>>), NumberNode(<<"2">>)>>),
    ErrorNode,
    ParseResult("Number", <<"1">>, <<ErrorNode>>),
    ParseResult("Expression", <<>>,
                <<NumberNode(<<"1">>), ParseResult("Operator", <<"+">>, <<>>), ErrorNode>>) }

\* the tree of `var a = value`
DeclarationNode(value) ==
  ParseResult("Assignment", <<>>,
              <<ParseResult("Assignment", <<"v", "a", "r">>, <<>>),
                ParseResult("Variable", <<"a">>, <<>>), value>>)

\* the tree of `a = value`
ReassignmentNode(value) ==
  ParseResult("Assignment", <<>>, <<ParseResult("Variable", <<"a">>, <<>>), value>>)

GateStatements ==
  GateValues \cup {DeclarationNode(value) : value \in GateValues}
             \cup {ReassignmentNode(value) : value \in GateValues}

GateBodies ==
  { <<>>, <<ErrorNode>>, <<DeclarationNode(NumberNode(<<"1">>)), ErrorNode>>,
    <<DeclarationNode(ParseResult("Number", <<"1">>, <<ErrorNode>>))>>,
    <<ParseResult("Number", <<"1">>, <<ErrorNode>>)>> }

\* the tree of `for i in [0, 1, 2] {` followed by the statements of body
LoopNode(body) ==
  ParseResult("Loop", <<"f", "o", "r">>,
              <<ParseResult("Variable", <<"i">>, <<>>),
                ParseResult("Range", <<"[">>,
                            <<NumberNode(<<"0">>), NumberNode(<<"1">>), NumberNode(<<"2">>)>>)>>
              \o body)

GateTrees ==
  GateStatements \cup {LoopNode(body) : body \in GateBodies}
                 \cup {LoopNode(<<LoopNode(<<ErrorNode>>)>>)}

\* interpret_code(parsed_code) has been called
CodeEntered(parsed_code, first) ==
  /\ frames' = <<CodeFrame(parsed_code)>>
  /\ parse_result' = first
  /\ outcome' = "interpreting"
  /\ errors' = <<>>
  /\ returned' = FALSE
  /\ interpretation_result' = NoValue
  /\ lastLoop' = NoLoop
  /\ UNCHANGED <<scopes, number_of_open_for_loops, line>>

\* interpret_code(parsed_code) is called
InterpretCode(parsed_code, first) ==
  /\ frames = <<>>
  /\ outcome # "crashed"
  /\ Len(scopes) <= MaxScopes
  /\ CodeEntered(parsed_code, first)
  /\ UNCHANGED <<code, call>>

NextGate ==
  \/ \E input \in GateTrees : InterpretCode(<<input>>, input)
  \/ InterpretStatement
  \/ EnterLoop
  \/ LoopIterate
  \/ LoopIncrement
  \/ LoopExit
  \/ PropagateFailure
  \/ ReturnToPrompt

SpecGate == Init /\ [][NextGate]_vars

(***************************************************************************)
(* File mode: interpret_code_from_file parses the lines of the file with   *)
(* parse_code and interprets parsed_code.                                  *)
(***************************************************************************)
FileLines == {LineVarA, LineSetA, LineForI, LineClose, LineForNegative}

FilePrograms == UNION {[1..n -> FileLines] : n \in 0..MaxFile}

\* parse_code has returned (or not): its value is not looked at
FileParsed(program, ub, parsed) ==
  /\ code' = program
  /\ call' = [op |-> "parse_code", program |-> program, ub |-> ub, parsed |-> parsed]
  /\ IF parsed.crash
     THEN /\ outcome' = "crashed"
          /\ UNCHANGED <<scopes, frames, returned, errors, number_of_open_for_loops,
                         parse_result, interpretation_result, line, lastLoop>>
     ELSE CodeEntered(parsed.parsed_code, parse_result)

\* interpret_code_from_file up to the call of interpret_code
InterpretCodeFromFile(program, ub) ==
  /\ frames = <<>>
  /\ outcome = "started"
  /\ FileParsed(program, ub, parse_code(program, ub))

\* interpret_code returns to interpret_code_from_file, which returns
ReturnFromFile ==
  /\ frames # <<>>
  /\ Top.kind = "code"
  /\ returned \/ Top.index >= Len(Top.children)
  /\ frames' = <<>>
  /\ returned' = FALSE
  /\ errors' = errors \o (IF returned
                          THEN <<"Code could not be interpreted successfully.">>
                          ELSE <<>>)
  /\ outcome' = IF returned THEN "failed" ELSE "interpreted"
  /\ lastLoop' = NoLoop
  /\ UNCHANGED <<scopes, code, number_of_open_for_loops, parse_result,
                 interpretation_result, line, call>>

NextFile ==
  \/ \E program \in FilePrograms, ub \in UBOutcomes : InterpretCodeFromFile(program, ub)
  \/ InterpretStatement
  \/ EnterLoop
  \/ LoopIterate
  \/ LoopIncrement
  \/ LoopExit
  \/ PropagateFailure
  \/ ReturnFromFile

SpecFile == Init /\ [][NextFile]_vars

(***************************************************************************)
(* The scope store on its own: any sequence of calls of its methods.       *)
(***************************************************************************)
StateNames == {<<"a">>, <<"b">>}

StateValues == {Double(Scale), Double(2 * Scale), NoValue}

Called(op, ret, variable, value) ==
  [op |-> op, ret |-> ret, variable |-> variable, value |-> value, before |-> scopes]

StateUnchanged ==
  UNCHANGED <<frames, returned, errors, code, number_of_open_for_loops,
              parse_result, interpretation_result, line, outcome, lastLoop>>

StateOpen ==
  /\ Len(scopes) < MaxDepth
  /\ scopes' = open_new_scope(scopes)
  /\ call' = Called("open_new_scope", TRUE, <<>>, NoValue)
  /\ StateUnchanged

StateClose ==
  /\ scopes' = close_scope(scopes).scopes
  /\ call' = Called("close_scope", close_scope(scopes).ok, <<>>, NoValue)
  /\ StateUnchanged

StateDefine(variable, value) ==
  /\ scopes' = define_variable_with_value(scopes, variable, value).scopes
  /\ call' = Called("define_variable_with_value",
                    define_variable_with_value(scopes, variable, value).ok,
                    variable, value)
  /\ StateUnchanged

StateSet(variable, value) ==
  /\ scopes' = set_value_for_variable(scopes, variable, value).scopes
  /\ call' = Called("set_value_for_variable",
                    set_value_for_variable(scopes, variable, value).ok,
                    variable, value)
  /\ StateUnchanged

NextState ==
  \/ StateOpen
  \/ StateClose
  \/ \E variable \in StateNames, value \in StateValues : StateDefine(variable, value)
  \/ \E variable \in StateNames, value \in StateValues : StateSet(variable, value)

SpecState == Init /\ [][NextState]_vars

(***************************************************************************)
(* The lexer on its own: parse_string called with a line.                  *)
(***************************************************************************)
\* lines with an opening bracket: what precedes it, the bracket, what follows
BracketHeads ==
  { <<>>,
    <<"a">>,
    <<"l", "i", "n", "e">>,
    <<"a", " ", "=", " ">>,
    <<"a", "(", "1", ")">>,
    <<"2", " ", "*", " ">> }

BracketOpenings == {<<"(">>, <<"[">>}

BracketRests ==
  { <<"2">>,
    <<"2", ")">>,
    <<"2", "]">>,
    <<"r", ":", " ", "(", "0", ")">>,
    <<"f", "r", "o", "m", ":", " ", "P", "o", "l", "(", "r", ":", " ", "0", ",", " ", "p", "h", "i", ":", " ", "0", ")">>,
    <<"f", "r", "o", "m", ":", " ", "P", "o", "l", "(", "r", ":", " ", "0", ",", " ", "p", "h", "i", ":", " ", "0", ")", ")">> }

BracketLines ==
  {head \o opening \o rest :
     head \in BracketHeads, opening \in BracketOpenings, rest \in BracketRests}

\* the record of a call of parse_string: what tokenize_string and the call returned
LexerParsed(str, ub, tokenized) ==
  [op |-> "parse_string", str |-> str, ub |-> ub, tokenized |-> tokenized,
   parsed |-> parse_string_tokens(tokenized, ub)]

LexerUnchanged ==
  UNCHANGED <<scopes, frames, returned, errors, code, number_of_open_for_loops,
              parse_result, interpretation_result, line, outcome, lastLoop>>

\* one call: parse_string keeps nothing from one call to the next
ParseString(str, ub) ==
  /\ call = NoCall
  /\ call' = LexerParsed(str, ub, tokenize_string(str, <<>>, ub))
  /\ LexerUnchanged

NextBrackets == \E str \in BracketLines, ub \in UBOutcomes : ParseString(str, ub)

SpecBrackets == Init /\ [][NextBrackets]_vars

\* lines with a pair of matching brackets, or a string escape, whose content has
\* an opening bracket of the other kind that is not closed
NestedHeads ==
  { <<>>,
    <<"a", " ", "=", " ">>,
    <<"2", " ", "*", " ">>,
    <<"l", "i", "n", "e">>,
    <<"a", " ">> }

NestedPrefixes ==
  { <<>>,
    <<"1", " ", "+", " ">>,
    <<"1", ",", " ">> }

NestedBracketLines ==
  {head \o <<"(">> \o prefix \o <<"[", "2", ")">> :
     head \in NestedHeads, prefix \in NestedPrefixes}
  \cup {head \o <<"[">> \o prefix \o <<"(", "2", "]">> :
           head \in NestedHeads, prefix \in NestedPrefixes}

NestedEscapeLines ==
  {head \o <<"\"", "\\", "(">> \o prefix \o <<"[", "2", ")", "\"">> :
     head \in {<<>>, <<"a", " ", "=", " ">>}, prefix \in NestedPrefixes}

NestedLines == NestedBracketLines \cup NestedEscapeLines

NextNested == \E str \in NestedLines, ub \in UBOutcomes : ParseString(str, ub)

SpecNested == Init /\ [][NextNested]_vars

\* lines with an opening quote that is not closed
QuoteHeads ==
  { <<>>,
    <<"v", "a", "r", " ", "s", " ", "=", " ">>,
    <<"a", " ", "=", " ">>,
    <<"a", " ">>,
    <<"2", " ", "+", " ">>,
    <<"a", "(", "1", ")">> }

QuoteTails ==
  { <<"a", "b", "c">>,
    <<"a", " ", "b">>,
    <<>>,
    <<"x", "\\", "(", "2", ")">> }

QuoteLines == {head \o <<"\"">> \o tail : head \in QuoteHeads, tail \in QuoteTails}

NextQuotes == \E str \in QuoteLines, ub \in UBOutcomes : ParseString(str, ub)

SpecQuotes == Init /\ [][NextQuotes]_vars

\* calls of the functions that have two arguments
TwoArgumentFunctions ==
  {function \in known_functions : Len(function[2]) = 2}

CallValues ==
  { <<"a">>,
    <<"2">>,
    <<"P", "o", "l", "(", "r", ":", " ", "0", ",", " ", "p", "h", "i", ":", " ", "0", ")">> }

\* the arguments as declared, in swapped order, without the second one, with a
\* third one, with a comma behind the last one
CallShapes == {"declared", "swapped", "prefix", "extra", "trailing"}

ArgumentText(name, value) == name \o <<":", " ">> \o value

ArgumentsText(function, shape, first_value, second_value) ==
  LET first == ArgumentText(function[2][1], first_value)
      second == ArgumentText(function[2][2], second_value)
  IN CASE shape = "declared" -> first \o <<",", " ">> \o second
       [] shape = "swapped" -> second \o <<",", " ">> \o first
       [] shape = "prefix" -> first
       [] shape = "extra" -> first \o <<",", " ">> \o second \o <<",", " ">> \o first
       [] shape = "trailing" -> first \o <<",", " ">> \o second \o <<",">>

CallLine(function, shape, first_value, second_value) ==
  function[1] \o <<"(">> \o ArgumentsText(function, shape, first_value, second_value)
    \o <<")">>

CallLinesOfShape(shape) ==
  {CallLine(function, shape, first_value, second_value) :
     function \in TwoArgumentFunctions, first_value \in CallValues,
     second_value \in CallValues}

CallLines == UNION {CallLinesOfShape(shape) : shape \in CallShapes}

\* the functions registered with no parameter: clear and show
NoArgumentFunctions == {function \in known_functions : function[2] = <<>>}

\* `clear()`, `clear( )`, `show()` and `show( )`
EmptyCallLines ==
  {function[1] \o <<"(">> \o blank \o <<")">> :
     function \in NoArgumentFunctions, blank \in {<<>>, <<" ">>}}

NextCalls ==
  \E str \in CallLines \cup EmptyCallLines, ub \in UBOutcomes : ParseString(str, ub)

SpecCalls == Init /\ [][NextCalls]_vars

(***************************************************************************)
(* Calls of every registered function, with the arguments as declared,     *)
(* parsed and then handed to interpret_function.                           *)
(***************************************************************************)
RECURSIVE DeclaredArguments(_, _)
DeclaredArguments(names, value) ==
  IF names = <<>> THEN <<>>
  ELSE IF Len(names) = 1 THEN ArgumentText(names[1], value)
  ELSE ArgumentText(names[1], value) \o <<",", " ">> \o DeclaredArguments(Tail(names), value)

DeclaredCall(function, value) ==
  function[1] \o <<"(">> \o DeclaredArguments(function[2], value) \o <<")">>

\* `log` has an implementation and no signature
UnregisteredCalls == {<<"l", "o", "g", "(", "x", ":", " ", "2", ")">>}

RegistryLines ==
  {DeclaredCall(function, value) : function \in known_functions,
                                   value \in {<<"a">>, <<"2">>}}
    \cup UnregisteredCalls

\* interpret_parse_result of the Function node that parse_string has returned
InterpretFunction ==
  /\ call.op = "parse_string"
  /\ outcome = "started"
  /\ call.parsed.ok /\ ~call.parsed.crash
  /\ call.parsed.result.type = "Function"
  /\ outcome' = IF interpret_function(call.parsed.result).found THEN "dispatched"
                ELSE "failed"
  /\ errors' = interpret_function(call.parsed.result).errors
  /\ parse_result' = call.parsed.result
  /\ UNCHANGED <<scopes, frames, returned, code, number_of_open_for_loops,
                 interpretation_result, line, lastLoop, call>>

NextRegistry ==
  \/ \E str \in RegistryLines, ub \in UBOutcomes : ParseString(str, ub)
  \/ InterpretFunction

SpecRegistry == Init /\ [][NextRegistry]_vars

\* parse_code called with a program of at most MaxCode lines
ProgramLines == {LineForI, LineForJ, LineClose, LineSetA}

Programs == UNION {[1..n -> ProgramLines] : n \in 0..MaxCode}

ParseCode(program, ub) ==
  /\ call = NoCall
  /\ call' = [op |-> "parse_code", program |-> program, ub |-> ub,
              parsed |-> parse_code(program, ub)]
  /\ LexerUnchanged

NextCode == \E program \in Programs, ub \in UBOutcomes : ParseCode(program, ub)

SpecCode == Init /\ [][NextCode]_vars

(***************************************************************************)
(* Vocabulary of the properties.                                           *)
(***************************************************************************)
\* the statements of a loop after its variable and its range
Body(loop) == SubSeq(loop.children, 3, Len(loop.children))

IsDeclaration(statement) ==
  /\ statement.type = "Assignment"
  /\ Len(statement.children) = 3
  /\ At(statement.children, 0).type = "Assignment"

IsReassignment(statement) ==
  /\ statement.type = "Assignment"
  /\ Len(statement.children) = 2

AssignedName(statement) ==
  IF IsDeclaration(statement) THEN At(statement.children, 1).value
  ELSE At(statement.children, 0).value

AssignedExpression(statement) == statement.children[Len(statement.children)]

\* the frame on top is about to interpret its next statement
AboutToInterpret == Running /\ Top.pc = "body" /\ Top.index < Len(Top.children)

\* the frame on top is a loop whose body has just been interpreted
AboutToIncrement ==
  Running /\ Top.kind = "loop" /\ Top.pc = "body" /\ Top.index >= Len(Top.children)

Bound(sc, variable) == value_for_variable(sc, variable).ok

BoundInCurrentScope(sc, variable) == value_for_variable_in_current_scope(sc, variable).ok

\* the scope in which variable resolves innermost-first
ResolvingScope(sc, variable) ==
  Max({i \in 1..Len(sc) : variable \in DOMAIN sc[i]})

Printed(message) == \E i \in 1..Len(errors) : errors[i] = message

LoopVariableName(loop) == At(loop.children, 0).value

\* the range of a loop evaluated with the bindings sc
RangeOf(loop, sc) ==
  LET range == At(loop.children, 1).children
      ok == /\ Len(range) = 3
            /\ \A k \in 1..3 :
                 /\ interpret_parse_result(range[k], sc).ok
                 /\ interpret_parse_result(range[k], sc).value.kind = "double"
      number(k) == IF ok THEN interpret_parse_result(range[k], sc).value.v ELSE 0
  IN [ok |-> ok, lower |-> number(1), step |-> number(2), upper |-> number(3)]

\* lower, lower + step, ... up to upper, for step > 0
RECURSIVE RangeValues(_, _, _)
RangeValues(lower, step, upper) ==
  IF lower > upper THEN <<>>
  ELSE <<Double(lower)>> \o RangeValues(lower + step, step, upper)

\* the passes a loop is to make, given the bindings it was entered with
ExpectedIterations(loop, sc) ==
  IF RangeOf(loop, sc).ok /\ RangeOf(loop, sc).step > 0
  THEN RangeValues(RangeOf(loop, sc).lower, RangeOf(loop, sc).step, RangeOf(loop, sc).upper)
  ELSE <<>>

\* the names a loop declares: its variable and the `var` statements of its body
RECURSIVE DeclaredIn(_)
DeclaredIn(loop) ==
  {LoopVariableName(loop)}
    \cup {AssignedName(Body(loop)[k]) : k \in {k \in 1..Len(Body(loop)) : IsDeclaration(Body(loop)[k])}}
    \cup UNION {DeclaredIn(Body(loop)[k]) : k \in {k \in 1..Len(Body(loop)) : Body(loop)[k].type = "Loop"}}

(***************************************************************************)
(* Properties.                                                             *)
(***************************************************************************)
\* a reassignment about to be interpreted whose variable is bound and whose
\* right-hand side evaluates writes the value into the scope in which the
\* variable resolves and changes nothing else
ReassignmentWritesResolvingScope ==
  (/\ AboutToInterpret
   /\ IsReassignment(CurrentStatement)
   /\ Bound(scopes, AssignedName(CurrentStatement))
   /\ interpret_parse_result(AssignedExpression(CurrentStatement), scopes).ok)
  => scopes' = [scopes EXCEPT ![ResolvingScope(scopes, AssignedName(CurrentStatement))] =
                  Bind(@, AssignedName(CurrentStatement),
                       interpret_parse_result(AssignedExpression(CurrentStatement),
                                              scopes).value)]

\* a loop that has returned success after at least one pass whose body
\* reassigned a variable of an enclosing scope has left that value in it
ReassignmentOutlivesLoop ==
  (lastLoop.valid /\ lastLoop.ok /\ lastLoop.completed >= 1)
  => \A k \in 1..Len(Body(lastLoop.loop)) :
       LET body == Body(lastLoop.loop)
           name == AssignedName(body[k])
       IN (/\ IsReassignment(body[k])
           /\ AssignedExpression(body[k]).type = "Number"
           /\ Bound(lastLoop.before, name)
           /\ name # LoopVariableName(lastLoop.loop)
           /\ \A j \in 1..Len(body) :
                body[j].type = "Assignment" /\ AssignedName(body[j]) = name
                  => IsReassignment(body[j]) /\ j <= k)
          => value_for_variable(scopes, name) =
               Looked(TRUE, interpret_number(AssignedExpression(body[k]), scopes).value)

\* C1: a reassignment `x = e` with x bound overwrites x in exactly the scope in
\* which x resolves innermost-first and adds or changes no binding in any other
\* scope, so that a reassignment made in a loop body to a variable declared
\* outside the loop is still visible after the loop has closed its scope.
C1_ReassignmentInResolvingScope ==
  [][ReassignmentWritesResolvingScope]_vars /\ []ReassignmentOutlivesLoop

\* C2: a loop whose body declares variables with `var` executes its body for
\* every value of the range: each declaration succeeds in each pass and
\* interpret_loop returns success after the last pass.
C2_DeclaringBodyRunsEveryPass ==
  (/\ lastLoop.valid
   /\ RangeOf(lastLoop.loop, lastLoop.before).ok
   /\ RangeOf(lastLoop.loop, lastLoop.before).step > 0
   /\ Body(lastLoop.loop) # <<>>
   /\ \A k \in 1..Len(Body(lastLoop.loop)) :
        /\ IsDeclaration(Body(lastLoop.loop)[k])
        /\ AssignedExpression(Body(lastLoop.loop)[k]).type = "Number"
        /\ AssignedName(Body(lastLoop.loop)[k]) # LoopVariableName(lastLoop.loop)
        /\ \A j \in 1..Len(Body(lastLoop.loop)) :
             (/\ IsDeclaration(Body(lastLoop.loop)[j])
              /\ AssignedName(Body(lastLoop.loop)[j]) = AssignedName(Body(lastLoop.loop)[k]))
               => j = k)
  => /\ lastLoop.ok
     /\ lastLoop.iterations = ExpectedIterations(lastLoop.loop, lastLoop.before)
     /\ lastLoop.completed = Len(lastLoop.iterations)

\* C3: interpret_loop leaves the scope stack at the depth it had on entry on
\* every exit path: when it has returned, with success or with failure, as
\* many scopes are open as before the call.
C3_LoopKeepsScopeDepth ==
  lastLoop.valid => Len(scopes) = Len(lastLoop.before)

\* C4: a name a loop declares (its loop variable or a `var` of its body) that
\* no enclosing scope binds is unreachable once the loop statement has been
\* interpreted: looking it up fails.
C4_LoopNamesUnreachableAfterLoop ==
  lastLoop.valid
  => \A name \in DeclaredIn(lastLoop.loop) :
       ~Bound(lastLoop.before, name) => ~Bound(scopes, name)

\* C5: a loop over [lower, step, upper] with step > 0 whose body does not
\* touch the loop variable executes its body once for each value lower,
\* lower + step, ... that does not exceed upper, in increasing order with the
\* loop variable bound to that value, not at all when lower > upper, and then
\* returns success.  (The bodies taken are those of empty statements and of
\* reassignments of a variable bound outside the loop.)
C5_LoopBoundSemantics ==
  (/\ lastLoop.valid
   /\ RangeOf(lastLoop.loop, lastLoop.before).ok
   /\ RangeOf(lastLoop.loop, lastLoop.before).step > 0
   /\ \A k \in 1..Len(Body(lastLoop.loop)) :
        \/ Body(lastLoop.loop)[k].type = "Empty"
        \/ /\ IsReassignment(Body(lastLoop.loop)[k])
           /\ AssignedExpression(Body(lastLoop.loop)[k]).type = "Number"
           /\ AssignedName(Body(lastLoop.loop)[k]) # LoopVariableName(lastLoop.loop)
           /\ Bound(lastLoop.before, AssignedName(Body(lastLoop.loop)[k])))
  => /\ lastLoop.ok
     /\ lastLoop.iterations = ExpectedIterations(lastLoop.loop, lastLoop.before)
     /\ lastLoop.completed = Len(lastLoop.iterations)

\* C6: the header `for i in [0.0, 1.0, -1.0] {` is accepted as a Loop with
\* three range sub-expressions, and interpreting the loop executes the body
\* zero times and succeeds.
C6_NegativeUpperBoundAccepted ==
  /\ line = LineForNegative
       => /\ outcome = "collecting"
          /\ parse_result.type = "Loop"
          /\ Len(parse_result.children) = 2
          /\ At(parse_result.children, 1).type = "Range"
          /\ Len(At(parse_result.children, 1).children) = 3
  /\ (lastLoop.valid /\ Len(frames) = 1 /\ code # <<>> /\ code[1] = LineForNegative)
       => lastLoop.ok /\ lastLoop.iterations = <<>>

\* the value bound to the loop variable in the scope of the loop on top
CurrentLoopValue ==
  value_for_variable_in_current_scope(scopes, Top.loop_variable_name).value

\* C7: after each pass the next value of the loop variable is the value
\* bound to it in the scope of the loop at that time plus the step: a
\* reassignment of the loop variable in the body is what the increment and
\* the test `<= upper` go by.
C7_IncrementFromCurrentValue ==
  [][(AboutToIncrement
      /\ BoundInCurrentScope(scopes, Top.loop_variable_name)
      /\ CurrentLoopValue.kind = "double")
     => /\ Len(frames') = Len(frames)
        /\ frames'[Len(frames)].loop_variable = CurrentLoopValue.v + Top.step_size
        /\ value_for_variable_in_current_scope(scopes', Top.loop_variable_name) =
             Looked(TRUE, Double(CurrentLoopValue.v + Top.step_size))]_vars

\* C8: after any sequence of open_new_scope, close_scope,
\* define_variable_with_value and set_value_for_variable calls the scope
\* stack holds at least one scope; close_scope on a stack of depth 1 returns
\* false and removes nothing.
C8_GlobalScopeNeverRemoved ==
  /\ Len(scopes) >= 1
  /\ (call.op = "close_scope" /\ Len(call.before) = 1)
       => ~call.ret /\ scopes = call.before

\* close_scope has been refused on a stack of depth 1 that holds a binding
C8_Witness ==
  /\ call.op = "close_scope"
  /\ Len(call.before) = 1
  /\ call.before[1] # EmptyScope
  /\ ~call.ret

\* a declaration about to be interpreted whose variable the current scope binds
AboutToRedeclare ==
  /\ AboutToInterpret
  /\ IsDeclaration(CurrentStatement)
  /\ BoundInCurrentScope(scopes, AssignedName(CurrentStatement))

\* C9 as stated: `var a = e2` with a bound in the current scope fails with a
\* redefinition error and leaves every binding unchanged.
C9_RedeclarationFailsWithRedefinition ==
  [][AboutToRedeclare
     => /\ returned'
        /\ scopes' = scopes
        /\ errors' = errors \o <<"Redefinition">>]_vars

\* C9: `var a = e2` with a bound in the current scope fails and leaves every
\* binding unchanged; the error is the redefinition error when e2 evaluates
\* to a value, and the error of evaluating e2 when it does not.
C9_RedeclarationFails ==
  [][AboutToRedeclare
     => LET value_interpretation ==
              interpret_parse_result(AssignedExpression(CurrentStatement), scopes)
        IN /\ returned'
           /\ scopes' = scopes
           /\ errors' = errors \o (IF value_interpretation.ok THEN <<"Redefinition">>
                                   ELSE value_interpretation.errors)]_vars

\* a declaration of a bound variable has been refused as a redefinition
C9_Witness ==
  /\ line \in DeclLines
  /\ outcome = "failed"
  /\ Printed("Redefinition")
  /\ \E id \in DeclIds : BoundInCurrentScope(scopes, id)

\* C10: for every line `var <id> = <number>` with <id> not bound in the current
\* scope, tokenizing, parsing and interpreting the line succeeds, and looking
\* up <id> afterwards yields the numeric value of <number>.
C10_DeclarationRoundTrip ==
  [][\A id \in DeclIds, number \in DeclNumbers :
       ~BoundInCurrentScope(scopes, id)
       => /\ (frames = <<>> /\ line' = DeclLine(id, number.text))
               => outcome' = "interpreting"
          /\ (AboutToInterpret /\ code = <<DeclLine(id, number.text)>>)
               => /\ ~returned'
                  /\ value_for_variable(scopes', id) = Looked(TRUE, Double(number.value))]_vars

\* a reassignment `x = x` about to be interpreted
AboutToReassignSelf ==
  /\ AboutToInterpret
  /\ IsReassignment(CurrentStatement)
  /\ AssignedExpression(CurrentStatement).type \in {"Unknown", "Variable"}
  /\ AssignedExpression(CurrentStatement).value = AssignedName(CurrentStatement)

\* C11: for every bound variable x, in any scope nesting, interpreting `x = x`
\* succeeds and the value that x resolves to afterwards equals the value it
\* resolved to before.
C11_SelfReassignmentKeepsValue ==
  [][(AboutToReassignSelf /\ Bound(scopes, AssignedName(CurrentStatement)))
     => /\ ~returned'
        /\ errors' = errors
        /\ Len(frames') = Len(frames)
        /\ frames'[Len(frames)].index = Top.index + 1
        /\ value_for_variable(scopes', AssignedName(CurrentStatement)) =
             value_for_variable(scopes, AssignedName(CurrentStatement))]_vars

\* `a = a` has been interpreted in the body of a loop, a being a variable of
\* the scope that encloses the loop
C11_Witness ==
  /\ Running
  /\ Top.kind = "loop" /\ Top.pc = "body" /\ Top.index > 2
  /\ At(Top.children, Top.index - 1) = parse_line(LineSelfA, CHOOSE ub \in UBOutcomes : TRUE).result
  /\ Len(scopes) >= 2
  /\ <<"a">> \in DOMAIN scopes[1]
  /\ Bound(scopes, <<"a">>)

\* a reference to a variable that no scope binds, about to be interpreted
AboutToReferUnbound ==
  /\ AboutToInterpret
  /\ CurrentStatement.type \in {"Unknown", "Variable"}
  /\ CurrentStatement.children = <<>>
  /\ ~Bound(scopes, CurrentStatement.value)

\* a reassignment of a variable that no scope binds, about to be interpreted
AboutToReassignUnbound ==
  /\ AboutToInterpret
  /\ IsReassignment(CurrentStatement)
  /\ ~Bound(scopes, AssignedName(CurrentStatement))

\* C12: a reference to a variable that is bound in no scope of the stack fails
\* with the 'undeclared variable' error naming the variable, and a
\* reassignment `x = e` to such a variable fails; neither changes any scope.
C12_UnboundVariableFails ==
  [][/\ AboutToReferUnbound
          => /\ returned'
             /\ scopes' = scopes
             /\ errors' = errors \o <<"Use of undeclared variable">> \o CurrentStatement.value
     /\ AboutToReassignUnbound
          => /\ returned'
             /\ scopes' = scopes]_vars

\* both a reference and a reassignment have failed on a variable no scope
\* binds, in a state in which another variable is bound
C12_Witness ==
  /\ outcome = "failed"
  /\ line \in {LineRefB, LineSetB}
  /\ Printed("Trying to assign to undefined variable") \/ Printed("Use of undeclared variable")
  /\ ~Bound(scopes, <<"b">>)
  /\ Bound(scopes, <<"a">>)

\* the value of the Number term of an expression
TermValue(term) == stod(term.value).value

\* children[index..] reduced: every maximal run of `*` and `/` is replaced by
\* its value, computed left to right; reduced ends with the run in progress
RECURSIVE ReduceRuns(_, _, _)
ReduceRuns(children, index, reduced) ==
  IF index > Len(children) THEN reduced
  ELSE IF children[index].value = <<"*">>
  THEN ReduceRuns(children, index + 2,
         [reduced EXCEPT ![Len(reduced)] = Multiply(@, TermValue(children[index + 1]))])
  ELSE IF children[index].value = <<"/">>
  THEN ReduceRuns(children, index + 2,
         [reduced EXCEPT ![Len(reduced)] = Divide(@, TermValue(children[index + 1]))])
  ELSE ReduceRuns(children, index + 2,
         reduced \o <<children[index].value, TermValue(children[index + 1])>>)

\* value, operator, value, ... folded left to right with `+` and `-`
RECURSIVE FoldSums(_, _, _)
FoldSums(reduced, index, sum) ==
  IF index > Len(reduced) THEN sum
  ELSE FoldSums(reduced, index + 2,
                IF reduced[index] = <<"+">> THEN sum + reduced[index + 1]
                ELSE sum - reduced[index + 1])

\* the value of term (op term)* by the precedence of `*` and `/` over `+` and `-`
PrecedenceValue(children) ==
  LET reduced == ReduceRuns(children, 2, <<TermValue(children[1])>>)
  IN FoldSums(reduced, 2, reduced[1])

\* term (op term)* with numbers as terms
IsArithmetic(statement) ==
  /\ statement.type = "Expression"
  /\ Len(statement.children) % 2 = 1
  /\ \A k \in 1..Len(statement.children) :
       statement.children[k].type = (IF k % 2 = 1 THEN "Number" ELSE "Operator")

\* C13: for every well-formed expression term (op term)* over + - * /,
\* interpret_expression returns the value obtained by first reducing every
\* maximal run of * and / left to right and then folding + and - left to
\* right; `2 + 3 * 4` is 14 and `10 / 2 / 5` is 1.
C13_ArithmeticPrecedence ==
  [][(AboutToInterpret /\ Top.kind = "code" /\ IsArithmetic(CurrentStatement))
     => /\ ~returned'
        /\ interpretation_result' = Double(PrecedenceValue(CurrentStatement.children))]_vars

\* C14: the line `(2 + 3) * 4` is tokenized into an Expression token holding
\* `2 + 3` followed by `*` and `4`, and evaluates to 20; so does a
\* parenthesised sub-expression that stands elsewhere in the line, as in
\* `4 * (2 + 3)`.
C14_ParenthesisedOperand ==
  line \in ParenLines
  => /\ outcome \in {"interpreting", "interpreted"}
     /\ parse_result.type = "Expression"
     /\ Len(parse_result.children) = 3
     /\ parse_result.children[2] = ParseResult("Operator", <<"*">>, <<>>)
     /\ \E k \in {1, 3} :
          /\ parse_result.children[k].type = "Expression"
          /\ IsArithmetic(parse_result.children[k])
          /\ parse_result.children[4 - k] = ParseResult("Number", <<"4">>, <<>>)
     /\ outcome = "interpreted" => interpretation_result = Double(20 * Scale)

\* the text an escape of StringLines stands for: the representation of its value
EscapeText(escape) ==
  IF escape = <<>> THEN <<>>
  ELSE IF escape \in StringFirstEscapes THEN to_string(2 * Scale)
  ELSE to_string(3 * Scale)

(***************************************************************************)
(* C15: the value of a string literal with escapes is the concatenation,   *)
(* in source order, of every text run before, between and after the        *)
(* escapes and of the string representation of every escape's value; no    *)
(* run is dropped or duplicated.                                           *)
(***************************************************************************)
C15_StringInterpolation ==
  \A first_run \in StringRuns, first_escape \in StringFirstEscapes,
     second_run \in StringRuns, second_escape \in StringSecondEscapes,
     third_run \in StringRuns :
    (/\ line = StringLine(first_run, first_escape, second_run, second_escape, third_run)
     /\ first_escape \o second_escape # <<>>
     /\ outcome = "interpreted")
    => interpretation_result
         = String(first_run \o EscapeText(first_escape) \o second_run
                    \o EscapeText(second_escape) \o third_run)

\* the opening brackets of str that no pair of matching brackets encloses
TopLevelOpenings(str) ==
  {i \in 0..(Len(str) - 1) :
     /\ At(str, i) \in {"(", "["}
     /\ ~\E k \in 0..(i - 1) :
           /\ At(str, k) \in {"(", "["}
           /\ position_of_matching_bracket_for_position(str, At(str, k), k) > i}

\* those of them that have no matching closing bracket
UnmatchedOpenings(str) ==
  {i \in TopLevelOpenings(str) :
     position_of_matching_bracket_for_position(str, At(str, i), i) = npos}

(***************************************************************************)
(* C16: for a line with an opening ( or [ at the top level that has no     *)
(* matching closing bracket, tokenize_string returns failure with an       *)
(* error that names the unmatched character and its index, and the line    *)
(* is not parsed into a statement.                                         *)
(***************************************************************************)
C16_UnmatchedBracketFails ==
  (call.op = "parse_string" /\ UnmatchedOpenings(call.str) # {})
  => /\ ~call.tokenized.ok
     /\ ~call.tokenized.crash
     /\ \E i \in UnmatchedOpenings(call.str) :
          call.tokenized.message
            = <<"Missing parentheses: Could not find matching parentheses for '",
                At(call.str, i), "' at character index: ">>
                \o to_string_int(i) \o <<".">>
     /\ ~call.parsed.ok

(***************************************************************************)
(* C17: a call of a function with two arguments whose arguments have the   *)
(* right names but are given in swapped order, such as                     *)
(* line(to: b, from: a), fails parsing.                                    *)
(***************************************************************************)
C17_SwappedArgumentsFail ==
  (call.op = "parse_string" /\ call.str \in CallLinesOfShape("swapped"))
  => /\ call.tokenized.ok
     /\ ~call.parsed.ok
     /\ ~call.parsed.crash

C17_Witness ==
  /\ call.op = "parse_string"
  /\ call.str = CallLine(<<<<"l", "i", "n", "e">>,
                           <<<<"f", "r", "o", "m">>, <<"t", "o">>>>>>,
                         "swapped", <<"a">>, <<"2">>)
  /\ ~call.parsed.ok

(***************************************************************************)
(* C18: an argument list that stops after a proper prefix of the declared  *)
(* parameters, that has an extra argument, or that ends in a comma is      *)
(* rejected as a parse error.                                              *)
(***************************************************************************)
C18_ArgumentListExact ==
  (/\ call.op = "parse_string"
   /\ call.str \in CallLinesOfShape("prefix") \cup CallLinesOfShape("extra")
                      \cup CallLinesOfShape("trailing"))
  => /\ ~call.parsed.ok
     /\ ~call.parsed.crash

IsLoopHeader(code_line) == code_line \in {LineForI, LineForJ}

\* the numbers (from 1) of the lines whose loops are open after the first
\* line_number lines, innermost last; a } closes the innermost open loop
RECURSIVE OpenLoopLines(_, _)
OpenLoopLines(program, line_number) ==
  IF line_number = 0 THEN <<>>
  ELSE LET open == OpenLoopLines(program, line_number - 1)
       IN IF IsLoopHeader(program[line_number]) THEN Append(open, line_number)
          ELSE IF program[line_number] = LineClose /\ open # <<>>
          THEN SubSeq(open, 1, Len(open) - 1)
          ELSE open

(***************************************************************************)
(* C19: if at the end of the input a loop opened by a `for ... {` line     *)
(* has not been closed by a `}` line, parse_code returns failure and       *)
(* reports the line of the innermost loop that is not terminated.          *)
(***************************************************************************)
C19_UnterminatedLoopReported ==
  (call.op = "parse_code" /\ OpenLoopLines(call.program, Len(call.program)) # <<>>)
  => /\ ~call.parsed.ok
     /\ ~call.parsed.crash
     /\ call.parsed.line
          = OpenLoopLines(call.program, Len(call.program))[
              Len(OpenLoopLines(call.program, Len(call.program)))]

\* every } of the program closes a loop and every loop is closed
Balanced(program) ==
  /\ OpenLoopLines(program, Len(program)) = <<>>
  /\ \A line_number \in 1..Len(program) :
       program[line_number] = LineClose
       => OpenLoopLines(program, line_number - 1) # <<>>

\* the statements of the block that begins at line_number (from 0), read by
\* recursive descent: [statements, next], next the line of the } that ends it
RECURSIVE ExpectedBlock(_, _, _, _)
ExpectedBlock(program, line_number, statements, ub) ==
  IF line_number >= Len(program) \/ At(program, line_number) = LineClose
  THEN [statements |-> statements, next |-> line_number]
  ELSE IF IsLoopHeader(At(program, line_number))
  THEN LET body == ExpectedBlock(program, line_number + 1, <<>>, ub)
           header == parse_line(At(program, line_number), ub).result
       IN ExpectedBlock(program, body.next + 1,
            Append(statements, [header EXCEPT !.children = @ \o body.statements]), ub)
  ELSE ExpectedBlock(program, line_number + 1,
         Append(statements, parse_line(At(program, line_number), ub).result), ub)

C21_NestedFailurePropagates ==
  (call.op = "parse_string" /\ call.str \in NestedLines /\ ~call.tokenized.crash)
  => /\ ~call.tokenized.ok
     /\ ~call.parsed.ok

(***************************************************************************)
(* C22: on a line with an opening quote that has no closing quote, such    *)
(* as var s = "abc, tokenize_string terminates and returns failure; it     *)
(* does not scan the line again from an earlier position.                  *)
(***************************************************************************)
C22_UnmatchedQuoteFails ==
  (call.op = "parse_string" /\ call.str \in QuoteLines)
  => /\ ~call.tokenized.crash
     /\ ~call.tokenized.ok

\* the tree holds an Error node, at the root or below it
RECURSIVE ContainsError(_)
ContainsError(tree) ==
  \/ tree.type = "Error"
  \/ \E i \in 1..Len(tree.children) : ContainsError(tree.children[i])

C28_RejectedProgramNotExecuted ==
  (call.op = "parse_code" /\ ~call.parsed.crash /\ ~call.parsed.ok)
  => /\ scopes = <<EmptyScope>>
     /\ \A i \in 1..Len(frames) : frames[i].kind = "code" /\ frames[i].index = 0

\* the sequence shorter is the beginning of the sequence longer
IsPrefix(shorter, longer) ==
  /\ Len(shorter) <= Len(longer)
  /\ SubSeq(longer, 1, Len(shorter)) = shorter

\* the next step interprets a statement that is no loop, and it fails
StatementFails ==
  /\ Running
  /\ Top.pc = "body"
  /\ Top.index < Len(Top.children)
  /\ CurrentStatement.type # "Loop"
  /\ ~interpret_parse_result(CurrentStatement, scopes).ok

(***************************************************************************)
(* C24: fail-fast, non-transactional execution.  Statements are            *)
(* interpreted in source order; the first statement that fails makes       *)
(* interpret_code return false; from the failure on no statement and no    *)
(* iteration is interpreted (every open call returns, no index advances,   *)
(* no scope changes), and the scopes that the statements and iterations    *)
(* completed before the failure have written are kept as they are.         *)
(***************************************************************************)
C24_FailFast ==
  [][/\ StatementFails => returned'
     /\ (~returned /\ returned') => /\ IsPrefix(scopes, scopes')
                                    /\ IsPrefix(frames', frames)
     /\ returned => /\ scopes' = scopes
                    /\ IsPrefix(frames', frames) /\ frames' # frames
                    /\ frames' = <<>> => outcome' = "failed"
     /\ (~returned /\ ~returned' /\ Len(frames') = Len(frames) /\ frames # <<>>)
        => Top'.index \in {Top.index, Top.index + 1} \/ Top'.pc # Top.pc]_vars

\* `var a = 1`, `var a = 1`, `a = 2`: the second line fails, a keeps the value 1
C24_Witness ==
  /\ outcome = "failed"
  /\ code = <<LineVarA, LineVarA, LineSetA>>
  /\ value_for_variable(scopes, <<"a">>).value = Double(Scale)

\* the enclosing scopes of the current one
Enclosing(stack) == SubSeq(stack, 1, Len(stack) - 1)

\* the next step interprets, in a loop body, a declaration `var x = e` whose
\* e has a value, x being bound in an enclosing scope and not in the loop's own
ShadowingDeclaration ==
  /\ Running
  /\ Top.kind = "loop" /\ Top.pc = "body"
  /\ Top.index < Len(Top.children)
  /\ CurrentStatement.type = "Assignment"
  /\ Len(CurrentStatement.children) = 3
  /\ CurrentStatement.children[1].type = "Assignment"
  /\ value_for_variable(Enclosing(scopes), CurrentStatement.children[2].value).ok
  /\ ~value_for_variable_in_current_scope(scopes, CurrentStatement.children[2].value).ok
  /\ interpret_parse_result(CurrentStatement.children[3], scopes).ok

C26_CodeScopesNeverEmpty ==
  call.op = "parse_code"
  => /\ call.parsed.depth >= 1
     /\ ~call.parsed.crash

(***************************************************************************)
(* C27: every loop terminates.  Whatever the numbers lower, step and upper *)
(* are (step = 0 included), an interpret_loop that has reached its while   *)
(* loop returns in the end, the statements of the body terminating and not *)
(* writing the loop variable.                                              *)
(***************************************************************************)
C27_LoopTerminates == (Len(frames) >= 2) ~> (Len(frames) <= 1)

(***************************************************************************)
(* C29: a function registered with no parameter (clear, show) can be       *)
(* called with an empty argument list: the line `clear()` is tokenized and *)
(* parsed without error into a Function node whose one child is an         *)
(* ArgumentList without arguments.                                         *)
(***************************************************************************)
C29_EmptyArgumentListParses ==
  (call.op = "parse_string" /\ call.str \in EmptyCallLines)
  => /\ ~call.parsed.crash
     /\ call.tokenized.ok
     /\ call.parsed.ok
     /\ call.parsed.result.type = "Function"
     /\ call.parsed.result.children = <<ParseResult("ArgumentList", <<>>, <<>>)>>

\* the names registered as keywords of type Function that have a signature
RegisteredFunctions ==
  {function[1] : function \in {f \in known_functions : <<f[1], "Function">> \in types_for_keywords}}

(***************************************************************************)
(* C30: registry consistency.  Every function call that parses is          *)
(* dispatched to an implementation, never `No function definition found`;  *)
(* the names registered as Function keywords with a signature are the      *)
(* names that have an implementation.                                      *)
(***************************************************************************)
C30_RegistryConsistent ==
  (call.op = "parse_string" /\ outcome # "started")
  => /\ outcome = "dispatched"
     /\ RegisteredFunctions = builtin_functions

====
